---------------------------- MODULE Spec2Model ----------------------------
(***************************************************************************)
(* Sub-Gen: subtitle entry derivation (buildSubtitleEntries), the live     *)
(* preview (App getDisplayedText), the export preview (ExportModal) and    *)
(* the SRT / ASS timecode formatters.                                      *)
(*                                                                         *)
(* Strings are sequences of one-character strings, so that trim, join,     *)
(* the punctuation test and the timecode padding are computed and not      *)
(* assumed.  Times handled by the entry builder are only compared and      *)
(* copied by the code, so they are small naturals there; the timecode      *)
(* formatters do arithmetic on them and are modelled on IEEE-754 binary64  *)
(* values (see the second part of the module).                             *)
(***************************************************************************)
EXTENDS Integers, Sequences, FiniteSets, TLC

(***************************************************************************)
(* Bounds of the model                                                     *)
(***************************************************************************)
MaxTime == 3
MaxWords == 3
MaxSegs == 2
MaxWPL == 3
MaxDur == 1
MaxMillis == 1200
MaxEntries == 2

VARIABLES
    appState,          \* App: AppState
    subtitles,         \* App: Subtitle[] (useHistory present value)
    styleConfig,       \* App: StyleConfig (displayMode, wordsPerLine)
    showExportModal,   \* App: export modal mounted
    subtitleEntries,   \* ExportModal: useMemo(buildSubtitleEntries)
    sentMillis,        \* the decimal, in milliseconds, a response carried for a time
    seconds,           \* the number it became: a startTime / endTime of an entry
    srtTime,           \* generateSRTContent: formatTime(seconds), "" before the export
    assTime,           \* generateASSContent: formatASSTime(seconds), "" before the export
    response,          \* api: the segments of the /process response received
    burnRequest,       \* api: the /burn request of the export modal that is in flight
    call,              \* a call of an export utility: [fn, ...arguments]
    returned,          \* whether the call has returned
    result,            \* the value it returned
    threw,             \* whether the call ended in an exception instead
    draggedSubtitle,   \* Timeline: the times, in tenths of a second, of the subtitle under the mouse
    isDragging,        \* Timeline: isDragging
    dragType,          \* Timeline: dragType ("null" for null)
    dragSnapshot,      \* Timeline: dragSnapshot, the times when the drag started
    dragStartTime,     \* Timeline: dragStartTime, the time at the cursor when the drag started
    timeUpdate,        \* the last onSubtitleTimeUpdate(id, startTime, endTime) of the timeline
    past,              \* App: useHistory, the values undo goes back to, oldest first
    future,            \* App: useHistory, the values redo goes forward to, nearest first
    exportState,       \* ExportModal: exportState
    exportMode,        \* ExportModal: exportMode
    clientDownloadUrl, \* ExportModal: clientDownloadUrl is set (FALSE for null)
    runs               \* ClientExporter: the runExport of every instance mounted so far

editorVars == <<appState, subtitles, styleConfig, showExportModal, subtitleEntries>>
timeVars == <<sentMillis, seconds, srtTime, assTime>>
apiVars == <<response, burnRequest>>
callVars == <<call, returned, result, threw>>
dragVars == <<draggedSubtitle, isDragging, dragType, dragSnapshot, dragStartTime, timeUpdate>>
exportVars == <<past, future, exportState, exportMode, clientDownloadUrl, runs>>
vars == <<editorVars, timeVars, apiVars, callVars, dragVars, exportVars>>

(***************************************************************************)
(* Strings                                                                 *)
(***************************************************************************)
Whitespace == {" ", "\t", "\n", "\r"}

RECURSIVE trimStart(_)
trimStart(s) ==
    IF s = <<>> THEN <<>>
    ELSE IF Head(s) \in Whitespace THEN trimStart(Tail(s)) ELSE s

RECURSIVE trimEnd(_)
trimEnd(s) ==
    IF s = <<>> THEN <<>>
    ELSE IF s[Len(s)] \in Whitespace THEN trimEnd(SubSeq(s, 1, Len(s) - 1)) ELSE s

\* String.prototype.trim
trim(s) == trimEnd(trimStart(s))

\* Array.prototype.join(' ') over a list of strings
RECURSIVE joinSpace(_)
joinSpace(parts) ==
    IF parts = <<>> THEN <<>>
    ELSE IF Len(parts) = 1 THEN parts[1]
    ELSE parts[1] \o <<" ">> \o joinSpace(Tail(parts))

\* /[.?!,;:]/.test(text)   (entry builder)
BuilderPunctuation == {".", "?", "!", ",", ";", ":"}
\* /[.?!,]/.test(text)     (App preview)
PreviewPunctuation == {".", "?", "!", ","}

regexTest(class, text) == \E i \in 1..Len(text) : text[i] \in class

Min(a, b) == IF a <= b THEN a ELSE b

(***************************************************************************)
(* Data: a Subtitle is [text, startTime, endTime, words]; the optional     *)
(* words field is [present |-> BOOLEAN, list |-> sequence of Word].        *)
(* displayMode "unset" and wordsPerLine 0 stand for a missing (undefined)  *)
(* field of StyleConfig; both are falsy in the code's `||` defaults.       *)
(***************************************************************************)
NoWords == [present |-> FALSE, list |-> <<>>]
SomeWords(ws) == [present |-> TRUE, list |-> ws]

DEFAULT_STYLE == [displayMode |-> "unset", wordsPerLine |-> 0]

\* variant: only an empty array counts, a missing words field does not
hasNoWordsEmptyOnly(subtitle) == subtitle.words.present /\ Len(subtitle.words.list) = 0

\* variant: only a missing words field counts, an empty array does not
hasNoWordsUndefinedOnly(subtitle) == ~subtitle.words.present

\* !subtitle.words || subtitle.words.length === 0
hasNoWords(subtitle) ==
    \/ ~subtitle.words.present
    \/ Len(subtitle.words.list) = 0

\* the sentence entry of a segment
sentenceEntry(subtitle) ==
    [text |-> trim(subtitle.text),
     startTime |-> subtitle.startTime,
     endTime |-> subtitle.endTime]

\* variant: the end is the next word's start, not clamped to the segment end
gapFillEndUnclamped(subtitle, i) ==
    IF i + 1 <= Len(subtitle.words.list)
    THEN subtitle.words.list[i + 1].startTime
    ELSE subtitle.endTime

\* const endTime = nextWord ? Math.min(nextWord.startTime, subtitle.endTime)
\*                          : subtitle.endTime
\* i is the 1-based index of the word that ends the entry
gapFillEnd(subtitle, i) ==
    IF i + 1 <= Len(subtitle.words.list)
    THEN Min(subtitle.words.list[i + 1].startTime, subtitle.endTime)
    ELSE subtitle.endTime

\* variant: a word entry ends where the next entry starts, the last one
\* where it started itself
wordEntriesUpToNext(subtitle) ==
    [i \in 1..Len(subtitle.words.list) |->
        [text |-> trim(subtitle.words.list[i].text),
         startTime |-> subtitle.words.list[i].startTime,
         endTime |-> IF i + 1 <= Len(subtitle.words.list)
                     THEN Min(subtitle.words.list[i + 1].startTime, subtitle.endTime)
                     ELSE subtitle.words.list[i].startTime]]

\* word mode: for (let i = 0; i < subtitle.words.length; i++)
wordEntries(subtitle) ==
    [i \in 1..Len(subtitle.words.list) |->
        [text |-> trim(subtitle.words.list[i].text),
         startTime |-> subtitle.words.list[i].startTime,
         endTime |-> gapFillEnd(subtitle, i)]]

\* variant: a wordsPerLine below the slider's minimum of 2 is replaced by the
\* default as well
effectiveWordsPerLineFromTwo(cfg) == IF cfg.wordsPerLine < 2 THEN 3 ELSE cfg.wordsPerLine

\* styleConfig.wordsPerLine || 3
effectiveWordsPerLine(cfg) == IF cfg.wordsPerLine = 0 THEN 3 ELSE cfg.wordsPerLine

\* variant: a punctuation word closes the chunk even when it is alone in it
shouldBreakAtAnyPunctuation(class, word, wordCount, wordsPerLine) ==
    \/ wordCount >= wordsPerLine
    \/ regexTest(class, word.text)

\* variant: the word count does not close a chunk, only punctuation does
shouldBreakOnPunctuationOnly(class, word, wordCount, wordsPerLine) ==
    regexTest(class, word.text) /\ wordCount > 1

\* variant: the chunk is closed one word late
shouldBreakLate(class, word, wordCount, wordsPerLine) ==
    \/ wordCount > wordsPerLine
    \/ (regexTest(class, word.text) /\ wordCount > 1)

\* wordCount >= wordsPerLine || (hasPunctuation && wordCount > 1)
shouldBreak(class, word, wordCount, wordsPerLine) ==
    \/ wordCount >= wordsPerLine
    \/ (regexTest(class, word.text) /\ wordCount > 1)

\* variant: currentChunk is not emptied after an entry was pushed
RECURSIVE phraseLoopCarryingChunk(_, _, _, _, _, _)
phraseLoopCarryingChunk(subtitle, wordsPerLine, i, currentChunk, chunkStartTime, wordCount) ==
    LET allWords == subtitle.words.list IN
    IF i > Len(allWords) THEN <<>>
    ELSE
      LET word == allWords[i]
          start == IF Len(currentChunk) = 0 THEN word.startTime ELSE chunkStartTime
          chunk == Append(currentChunk, word)
          count == wordCount + 1
          isLast == (i = Len(allWords))
      IN IF shouldBreak(BuilderPunctuation, word, count, wordsPerLine) \/ isLast
         THEN << [text |-> joinSpace([k \in 1..Len(chunk) |-> trim(chunk[k].text)]),
                  startTime |-> start,
                  endTime |-> gapFillEnd(subtitle, i)] >>
              \o phraseLoopCarryingChunk(subtitle, wordsPerLine, i + 1, chunk, start, 0)
         ELSE phraseLoopCarryingChunk(subtitle, wordsPerLine, i + 1, chunk, start, count)

\* phrase mode: the loop over allWords, from word i on, with the loop's
\* locals currentChunk, chunkStartTime, wordCount; result: entries pushed
RECURSIVE phraseLoop(_, _, _, _, _, _)
phraseLoop(subtitle, wordsPerLine, i, currentChunk, chunkStartTime, wordCount) ==
    LET allWords == subtitle.words.list IN
    IF i > Len(allWords) THEN <<>>
    ELSE
      LET word == allWords[i]
          start == IF Len(currentChunk) = 0 THEN word.startTime ELSE chunkStartTime
          chunk == Append(currentChunk, word)
          count == wordCount + 1
          isLast == (i = Len(allWords))
      IN IF shouldBreak(BuilderPunctuation, word, count, wordsPerLine) \/ isLast
         THEN << [text |-> joinSpace([k \in 1..Len(chunk) |-> trim(chunk[k].text)]),
                  startTime |-> start,
                  endTime |-> gapFillEnd(subtitle, i)] >>
              \o phraseLoop(subtitle, wordsPerLine, i + 1, <<>>, start, 0)
         ELSE phraseLoop(subtitle, wordsPerLine, i + 1, chunk, start, count)

phraseEntries(subtitle, cfg) ==
    phraseLoop(subtitle, effectiveWordsPerLine(cfg), 1, <<>>,
               subtitle.words.list[1].startTime, 0)

\* the body of `for (const subtitle of subtitles)`: entries pushed for one
\* segment
segmentEntries(subtitle, cfg) ==
    IF cfg.displayMode = "sentence" THEN <<sentenceEntry(subtitle)>>
    ELSE IF hasNoWords(subtitle) THEN <<sentenceEntry(subtitle)>>
    ELSE IF cfg.displayMode = "word" THEN wordEntries(subtitle)
    ELSE IF cfg.displayMode = "phrase" THEN phraseEntries(subtitle, cfg)
    ELSE <<>>

\* the loop body reads subtitle.words.length / subtitle.words[i] while
\* subtitle.words is undefined (a TypeError): the sentence branch and the
\* fallback branch were not taken and the words are missing
segmentThrows(subtitle, cfg) ==
    /\ cfg.displayMode # "sentence"
    /\ ~hasNoWords(subtitle)
    /\ ~subtitle.words.present

\* buildSubtitleEntries(subtitles, styleConfig) ends in an exception
buildThrows(subs, cfg) == \E k \in 1..Len(subs) : segmentThrows(subs[k], cfg)

\* variant: the entries of a segment are put in front of those already built
RECURSIVE buildSubtitleEntriesPrepending(_, _)
buildSubtitleEntriesPrepending(subs, cfg) ==
    IF subs = <<>> THEN <<>>
    ELSE buildSubtitleEntriesPrepending(Tail(subs), cfg) \o segmentEntries(Head(subs), cfg)

\* variant: the last entry of a segment is cut at the start of the segment
\* that follows it
RECURSIVE buildSubtitleEntriesCuttingAtNext(_, _)
buildSubtitleEntriesCuttingAtNext(subs, cfg) ==
    IF subs = <<>> THEN <<>>
    ELSE LET es == segmentEntries(Head(subs), cfg)
             cut(e) == [e EXCEPT !.endTime = Min(e.endTime, subs[2].startTime)]
         IN (IF Len(subs) >= 2 /\ es # <<>>
             THEN [j \in 1..Len(es) |-> IF j = Len(es) THEN cut(es[j]) ELSE es[j]]
             ELSE es)
            \o buildSubtitleEntriesCuttingAtNext(Tail(subs), cfg)

RECURSIVE buildSubtitleEntries(_, _)
buildSubtitleEntries(subs, cfg) ==
    IF subs = <<>> THEN <<>>
    ELSE segmentEntries(Head(subs), cfg) \o buildSubtitleEntries(Tail(subs), cfg)


(***************************************************************************)
(* Live preview of the editor: App, `activeSubtitle` and getDisplayedText. *)
(* A result is [isNull, text]; isNull stands for the value null.           *)
(***************************************************************************)
Null == [isNull |-> TRUE, text |-> <<>>]
Text(s) == [isNull |-> FALSE, text |-> s]

\* Array.prototype.findIndex / find: the first of the indices S that satisfy
\* the callback, 0 if there is none
firstIndex(S) == IF S = {} THEN 0 ELSE CHOOSE i \in S : \A j \in S : i <= j

\* subtitles.find(s => currentTime >= s.startTime && currentTime <= s.endTime)
activeSubtitleIndex(subs, currentTime) ==
    LET isActive(i) == currentTime >= subs[i].startTime /\ currentTime <= subs[i].endTime
    IN firstIndex({i \in 1..Len(subs) : isActive(i)})

\* steps 1 and 2 of getDisplayedText: the word being spoken, else the last
\* word that has started, else the first word
currentWordIndexOf(ws, currentTime) ==
    LET spoken(i) == currentTime >= ws[i].startTime /\ currentTime <= ws[i].endTime
        found == firstIndex({i \in 1..Len(ws) : spoken(i)})
        started == {i \in 1..Len(ws) : currentTime >= ws[i].startTime}
    IN IF found # 0 THEN found
       ELSE IF started # {} THEN CHOOSE i \in started : \A j \in started : j <= i
       ELSE 1

\* the phrase loop of the preview, from word i on
RECURSIVE previewPhraseLoop(_, _, _, _, _, _, _)
previewPhraseLoop(allWords, wordsPerLine, i, currentChunk, wordCount, currentWordIndex, fallback) ==
    IF i > Len(allWords) THEN fallback
    ELSE
      LET word == allWords[i]
          chunk == Append(currentChunk, word)
          count == wordCount + 1
          startIndex == i - count + 1
          endIndex == i
      IN IF shouldBreak(PreviewPunctuation, word, count, wordsPerLine) \/ i = Len(allWords)
         THEN IF currentWordIndex >= startIndex /\ currentWordIndex <= endIndex
              THEN joinSpace([k \in 1..Len(chunk) |-> chunk[k].text])
              ELSE previewPhraseLoop(allWords, wordsPerLine, i + 1, <<>>, 0,
                                     currentWordIndex, fallback)
         ELSE previewPhraseLoop(allWords, wordsPerLine, i + 1, chunk, count,
                                currentWordIndex, fallback)

AppGetDisplayedText(subs, cfg, currentTime) ==
    LET a == activeSubtitleIndex(subs, currentTime) IN
    IF a = 0 THEN Null
    ELSE LET activeSubtitle == subs[a] IN
      IF cfg.displayMode = "sentence" THEN Text(activeSubtitle.text)
      ELSE IF hasNoWords(activeSubtitle) THEN Text(activeSubtitle.text)
      ELSE LET ws == activeSubtitle.words.list
               currentWordIndex == currentWordIndexOf(ws, currentTime)
           IN IF cfg.displayMode = "word" THEN Text(ws[currentWordIndex].text)
              ELSE IF cfg.displayMode = "phrase"
                   THEN Text(previewPhraseLoop(ws, effectiveWordsPerLine(cfg), 1, <<>>, 0,
                                               currentWordIndex, activeSubtitle.text))
              ELSE Text(activeSubtitle.text)

\* ExportModal: subtitleEntries.find(...) ; activeEntry?.text || null
ExportGetDisplayedText(entries, currentTime) ==
    LET isActive(i) == currentTime >= entries[i].startTime /\ currentTime <= entries[i].endTime
        e == firstIndex({i \in 1..Len(entries) : isActive(i)})
    IN IF e = 0 THEN Null
       ELSE IF entries[e].text = <<>> THEN Null
       ELSE Text(entries[e].text)

\* what reaches the screen: `getDisplayedText() || ''` in App,
\* `getDisplayedText() && ...` in ExportModal; null shows nothing
shownText(r) == IF r.isNull THEN <<>> ELSE r.text

(***************************************************************************)
(* Backend segments (the /process response) and the boundary adapter.      *)
(***************************************************************************)
Times == 0..MaxTime
WordTexts == << <<"a">>, <<"b", ",">>, <<" ", "c", ";">> >>
SegTexts == { <<" ", "h", "i", " ">>, <<"o", "k">> }
Steps == {-1, 0, 1, 2}

\* n words; word i starts at s0 + (i-1)*step, lasts d, texts rotate from p
backendWords(n, s0, step, p, d) ==
    [i \in 1..n |->
        [word |-> WordTexts[((p + i - 1) % Len(WordTexts)) + 1],
         start |-> s0 + (i - 1) * step,
         end |-> s0 + (i - 1) * step + d]]

WordLists(ns, s0s, steps, ps, ds) ==
    {backendWords(n, s0, step, p, d) :
        n \in ns, s0 \in s0s, step \in steps, p \in ps, d \in ds}

inRange(ws) == \A i \in 1..Len(ws) : ws[i].start \in Times

BackendSegments ==
    {[start |-> a, end |-> b, text |-> tx, words |-> w] :
        a \in Times, b \in Times, tx \in SegTexts,
        w \in {NoWords} \cup
              {SomeWords(ws) : ws \in {l \in WordLists(0..MaxWords, Times, Steps,
                                                       0..(Len(WordTexts) - 1), 0..MaxDur) :
                                        inRange(l)}}}

\* a response of n segments; segment i starts at a0 + (i-1)*gap and lasts
\* len; with words, each segment has two, one at its start and one step later
backendChain(n, a0, len, gap, hasWords, step) ==
    [i \in 1..n |->
        [start |-> a0 + (i - 1) * gap,
         end |-> a0 + (i - 1) * gap + len,
         text |-> <<"o", "k">>,
         words |-> IF hasWords
                   THEN SomeWords(backendWords(2, a0 + (i - 1) * gap, step, 0, 0))
                   ELSE NoWords]]

chainInRange(c) ==
    \A i \in 1..Len(c) :
        /\ c[i].start \in Times
        /\ c[i].end \in Times
        /\ inRange(c[i].words.list)

BackendChains ==
    {c \in {backendChain(n, a0, len, gap, hasWords, step) :
               n \in 2..MaxSegs, a0 \in Times, len \in 0..1, gap \in Steps,
               hasWords \in BOOLEAN, step \in {-1, 1}} :
        chainInRange(c)}

BackendResponses ==
    {<<>>} \cup {<<s>> : s \in BackendSegments} \cup BackendChains

\* api.ts generateSubtitles: data.segments.map(...)
generateSubtitles(segments) ==
    [k \in 1..Len(segments) |->
        [startTime |-> segments[k].start,
         endTime |-> segments[k].end,
         text |-> segments[k].text,
         words |-> IF segments[k].words.present
                   THEN SomeWords([j \in 1..Len(segments[k].words.list) |->
                            [text |-> segments[k].words.list[j].word,
                             startTime |-> segments[k].words.list[j].start,
                             endTime |-> segments[k].words.list[j].end]])
                   ELSE NoWords]]

\* variant: the words are left out of the request
exportVideoWithoutWords(subs, cfg) ==
    [sent |-> TRUE,
     segments |-> [k \in 1..Len(subs) |->
        [start |-> subs[k].startTime,
         end |-> subs[k].endTime,
         text |-> subs[k].text,
         words |-> [present |-> FALSE, list |-> <<>>]]],
     styleConfig |-> cfg]

\* api.ts exportVideo: the body of the /burn request
exportVideo(subs, cfg) ==
    [sent |-> TRUE,
     segments |-> [k \in 1..Len(subs) |->
        [start |-> subs[k].startTime,
         end |-> subs[k].endTime,
         text |-> subs[k].text,
         words |-> IF subs[k].words.present
                   THEN [present |-> TRUE,
                         list |-> [j \in 1..Len(subs[k].words.list) |->
                            [word |-> subs[k].words.list[j].text,
                             start |-> subs[k].words.list[j].startTime,
                             end |-> subs[k].words.list[j].endTime]]]
                   ELSE [present |-> FALSE, list |-> <<>>]]],
     styleConfig |-> [displayMode |-> IF cfg.displayMode = "unset" THEN "sentence"
                                      ELSE cfg.displayMode,
                      wordsPerLine |-> IF cfg.wordsPerLine = 0 THEN 3
                                       ELSE cfg.wordsPerLine]]

(***************************************************************************)
(* JavaScript numbers: IEEE-754 binary64, round to nearest, ties to even.  *)
(* A natural of any size is a little-endian sequence of bits without high  *)
(* zero bits.  A (non-negative, finite) double is [m, e] and denotes       *)
(* m * 2^e, with m odd and shorter than 54 bits, or m empty for zero.      *)
(***************************************************************************)
MantissaBits == 53

\* the k low bits of the small natural n
fixedBits(n, k) == [i \in 1..k |-> (n \div (2 ^ (i - 1))) % 2]

\* the value of at most 30 bits
RECURSIVE valueOf(_)
valueOf(b) == IF b = <<>> THEN 0 ELSE b[1] + 2 * valueOf(Tail(b))

\* indices of the one bits
ones(b) == {i \in 1..Len(b) : b[i] = 1}
lowest(S) == CHOOSE i \in S : \A j \in S : i <= j
highest(S) == CHOOSE i \in S : \A j \in S : j <= i

\* drop the high zero bits
stripHigh(b) == IF ones(b) = {} THEN <<>> ELSE SubSeq(b, 1, highest(ones(b)))

\* the bits of a natural below 2^31
bitsOf(n) == stripHigh(fixedBits(n, 31))

zeros(n) == [i \in 1..n |-> 0]

\* b * 2^n
shiftLeft(b, n) == IF b = <<>> THEN <<>> ELSE zeros(n) \o b

\* floor(b / 2^n)
shiftRight(b, n) == SubSeq(b, n + 1, Len(b))

\* b + 1
increment(b) ==
    LET zs == {i \in 1..Len(b) : b[i] = 0}
    IN IF zs = {} THEN zeros(Len(b)) \o <<1>>
       ELSE zeros(lowest(zs) - 1) \o <<1>> \o SubSeq(b, lowest(zs) + 1, Len(b))

\* b * c + carry for a small c, fifteen bits of b at a time from the low end
RECURSIVE mulSmall(_, _, _)
mulSmall(b, c, carry) ==
    IF b = <<>> THEN bitsOf(carry)
    ELSE LET k == Min(15, Len(b))
             t == valueOf(SubSeq(b, 1, k)) * c + carry
         IN stripHigh(fixedBits(t % (2 ^ k), k)
                      \o mulSmall(SubSeq(b, k + 1, Len(b)), c, t \div (2 ^ k)))

\* long division of b by a small d, fifteen bits at a time from the high
\* end, entered with remainder r: Len(b) quotient bits, and the remainder
RECURSIVE divPart(_, _, _)
divPart(b, d, r) ==
    IF b = <<>> THEN [q |-> <<>>, r |-> r]
    ELSE LET k == Min(15, Len(b))
             t == r * (2 ^ k) + valueOf(SubSeq(b, Len(b) - k + 1, Len(b)))
             rest == divPart(SubSeq(b, 1, Len(b) - k), d, t % d)
         IN [q |-> rest.q \o fixedBits(t \div d, k), r |-> rest.r]

\* quotient and remainder of b by a small d
divSmall(b, d) ==
    LET x == divPart(b, d, 0) IN [q |-> stripHigh(x.q), r |-> x.r]

\* m * 2^e with m odd
canonical(m, e) ==
    IF ones(m) = {} THEN [m |-> <<>>, e |-> 0]
    ELSE [m |-> SubSeq(m, lowest(ones(m)), highest(ones(m))),
          e |-> e + lowest(ones(m)) - 1]

\* the double nearest to (b + f) * 2^e, where 0 <= f < 1 and sticky says
\* f # 0; exact when b fits the mantissa (then f = 0)
roundToDouble(b, e, sticky) ==
    IF Len(b) <= MantissaBits THEN canonical(b, e)
    ELSE LET r == Len(b) - MantissaBits
             kept == shiftRight(b, r)
             guard == b[r]
             rest == sticky \/ \E i \in 1..(r - 1) : b[i] = 1
             up == guard = 1 /\ (rest \/ kept[1] = 1)
         IN canonical(IF up THEN increment(kept) ELSE kept, e + r)

fromInt(n) == canonical(bitsOf(n), 0)

\* the integer part and the fraction of a double: x = intPart + fracPart * 2^x.e
intPart(x) == IF x.e >= 0 THEN shiftLeft(x.m, x.e) ELSE shiftRight(x.m, 0 - x.e)
fracPart(x) == IF x.e >= 0 THEN <<>> ELSE SubSeq(x.m, 1, Min(0 - x.e, Len(x.m)))

\* x / d                  (d a small integer; the quotient is rounded)
fdiv(x, d) ==
    LET qr == divSmall(shiftLeft(x.m, MantissaBits + 15), d)
    IN roundToDouble(qr.q, x.e - (MantissaBits + 15), qr.r # 0)

\* x * c                  (c a small integer; the product is rounded)
fmul(x, c) == roundToDouble(mulSmall(x.m, c, 0), x.e, FALSE)

\* x % k                  (k a small integer; the remainder is exact)
fmod(x, k) ==
    LET r == divSmall(intPart(x), k).r
    IN IF x.e >= 0 THEN fromInt(r)
       ELSE canonical(stripHigh(fracPart(x) \o zeros((0 - x.e) - Len(fracPart(x)))
                                \o bitsOf(r)), x.e)

\* 1 - x for 0 <= x <= 1   (the difference is rounded)
oneMinus(x) ==
    IF x.m = <<>> THEN fromInt(1)
    ELSE IF x.e >= 0 THEN fromInt(0)
    ELSE LET n == 0 - x.e
             complement == [i \in 1..n |-> IF i <= Len(x.m) THEN 1 - x.m[i] ELSE 1]
         IN roundToDouble(stripHigh(increment(complement)), x.e, FALSE)

\* Math.round(x): the nearest integer, halves upwards
round(x) ==
    valueOf(intPart(x))
    + (IF x.e < 0 /\ Len(x.m) >= 0 - x.e /\ x.m[0 - x.e] = 1 THEN 1 ELSE 0)

\* variant: the nearest integer instead of the one below
floorToNearest(x) == round(x)

\* Math.floor(x)
floor(x) == valueOf(intPart(x))

\* the number a JSON response carries for the decimal k/1000 (response.json())
jsonNumber(k) == fdiv(fromInt(k), 1000)

(***************************************************************************)
(* Timecodes                                                               *)
(***************************************************************************)
digitChar(d) == <<"0", "1", "2", "3", "4", "5", "6", "7", "8", "9">>[d + 1]

\* Number.prototype.toString of a natural
RECURSIVE toString(_)
toString(n) ==
    IF n < 10 THEN <<digitChar(n)>>
    ELSE toString(n \div 10) \o <<digitChar(n % 10)>>

\* String.prototype.padStart(n, c)
padStart(s, n, c) == IF Len(s) >= n THEN s ELSE [i \in 1..(n - Len(s)) |-> c] \o s

\* generateSRTContent: formatTime
formatTime(x) ==
    LET hours == floor(fdiv(x, 3600))
        minutes == floor(fdiv(fmod(x, 3600), 60))
        secs == floor(fmod(x, 60))
        millis == floor(fmul(fmod(x, 1), 1000))
    IN padStart(toString(hours), 2, "0") \o <<":">>
       \o padStart(toString(minutes), 2, "0") \o <<":">>
       \o padStart(toString(secs), 2, "0") \o <<",">>
       \o padStart(toString(millis), 3, "0")

\* variant: the fraction is taken in tenths
formatASSTimeTenths(x) ==
    LET hours == floor(fdiv(x, 3600))
        minutes == floor(fdiv(fmod(x, 3600), 60))
        secs == floor(fmod(x, 60))
        centis == floor(fmul(fmod(x, 1), 10))
    IN toString(hours) \o <<":">>
       \o padStart(toString(minutes), 2, "0") \o <<":">>
       \o padStart(toString(secs), 2, "0") \o <<".">>
       \o padStart(toString(centis), 2, "0")

\* generateASSContent: formatASSTime
formatASSTime(x) ==
    LET hours == floor(fdiv(x, 3600))
        minutes == floor(fdiv(fmod(x, 3600), 60))
        secs == floor(fmod(x, 60))
        centis == floor(fmul(fmod(x, 1), 100))
    IN toString(hours) \o <<":">>
       \o padStart(toString(minutes), 2, "0") \o <<":">>
       \o padStart(toString(secs), 2, "0") \o <<".">>
       \o padStart(toString(centis), 2, "0")

(***************************************************************************)
(* SRT                                                                     *)
(***************************************************************************)
\* entries.forEach((entry, index) => ...), from 1-based position k on, given
\* the srtContent built so far
RECURSIVE srtForEach(_, _, _)
srtForEach(entries, k, srtContent) ==
    IF k > Len(entries) THEN srtContent
    ELSE srtForEach(entries, k + 1,
            srtContent
            \o toString(k) \o <<"\n">>
            \o formatTime(entries[k].startTime) \o <<" ", "-", "-", ">", " ">>
               \o formatTime(entries[k].endTime) \o <<"\n">>
            \o entries[k].text \o <<"\n", "\n">>)

\* variant: the blocks are written from the last entry to the first
generateSRTContentBackwards(entries) ==
    srtForEach([i \in 1..Len(entries) |-> entries[Len(entries) + 1 - i]], 1, <<>>)

\* generateSRTContent(entries)
generateSRTContent(entries) == srtForEach(entries, 1, <<>>)

(***************************************************************************)
(* Colours                                                                 *)
(***************************************************************************)
LowerCase == <<"a", "b", "c", "d", "e", "f", "g", "h", "i", "j", "k", "l", "m",
               "n", "o", "p", "q", "r", "s", "t", "u", "v", "w", "x", "y", "z">>
UpperCase == <<"A", "B", "C", "D", "E", "F", "G", "H", "I", "J", "K", "L", "M",
               "N", "O", "P", "Q", "R", "S", "T", "U", "V", "W", "X", "Y", "Z">>

\* String.prototype.toUpperCase
toUpperCase(s) ==
    [i \in 1..Len(s) |->
        IF \E k \in 1..Len(LowerCase) : LowerCase[k] = s[i]
        THEN UpperCase[CHOOSE k \in 1..Len(LowerCase) : LowerCase[k] = s[i]]
        ELSE s[i]]

\* String.prototype.replace(c, ''): the first occurrence of c is dropped
replaceFirst(s, c) ==
    LET at == {i \in 1..Len(s) : s[i] = c}
    IN IF at = {} THEN s
       ELSE SubSeq(s, 1, lowest(at) - 1) \o SubSeq(s, lowest(at) + 1, Len(s))

\* String.prototype.slice(a, b) for 0 <= a <= b
slice(s, a, b) == SubSeq(s, a + 1, Min(b, Len(s)))

\* Number.prototype.toString(16) of a natural
RECURSIVE toString16(_)
toString16(n) ==
    LET digit(d) == IF d < 10 THEN digitChar(d) ELSE LowerCase[d - 9]
    IN IF n < 16 THEN <<digit(n)>>
       ELSE toString16(n \div 16) \o <<digit(n % 16)>>

\* the returned fallback '&H00FFFFFF'
FallbackColor == <<"&", "H", "0", "0", "F", "F", "F", "F", "F", "F">>

\* hexToASSColor(hex, opacity)
hexToASSColor(hex, opacity) ==
    LET cleanHex == replaceFirst(hex, "#")
        r == slice(cleanHex, 0, 2)
        g == slice(cleanHex, 2, 4)
        b == slice(cleanHex, 4, 6)
        alpha == toUpperCase(padStart(toString16(round(fmul(oneMinus(opacity), 255))),
                                      2, "0"))
    IN IF Len(cleanHex) # 6 THEN FallbackColor
       ELSE toUpperCase(<<"&", "H">> \o alpha \o b \o g \o r)

(***************************************************************************)
(* ASS.  The returned text is the fixed template of the header with the    *)
(* interpolated values below, followed by the event lines; the result is   *)
(* kept as those values and the text of the events.                        *)
(***************************************************************************)
\* parseInt(s): the number written by the leading digits, -1 (for NaN) if none
parseInt(s) ==
    LET isDigit(c) == \E d \in 0..9 : digitChar(d) = c
        stop == {i \in 1..Len(s) : ~isDigit(s[i])}
        n == IF stop = {} THEN Len(s) ELSE lowest(stop) - 1
        value(c) == CHOOSE d \in 0..9 : digitChar(d) = c
        weight(i) == 10 ^ (n - i)
        sumTo[i \in 0..n] == IF i = 0 THEN 0 ELSE sumTo[i - 1] + value(s[i]) * weight(i)
    IN IF n = 0 THEN -1 ELSE sumTo[n]

\* variant: carriage returns are kept
RECURSIVE escapeTextKeepingCR(_)
escapeTextKeepingCR(text) ==
    IF text = <<>> THEN <<>>
    ELSE (IF Head(text) = "\n" THEN <<"\\", "N">> ELSE <<Head(text)>>)
         \o escapeTextKeepingCR(Tail(text))

\* entry.text.replace(/\n/g, '\\N').replace(/\r/g, '')
RECURSIVE escapeText(_)
escapeText(text) ==
    IF text = <<>> THEN <<>>
    ELSE (IF Head(text) = "\n" THEN <<"\\", "N">>
          ELSE IF Head(text) = "\r" THEN <<>>
          ELSE <<Head(text)>>) \o escapeText(Tail(text))

\* the event line of an entry
dialogueLine(entry) ==
    <<"D", "i", "a", "l", "o", "g", "u", "e", ":", " ", "0", ",">> \o formatASSTime(entry.startTime) \o <<",">>
    \o formatASSTime(entry.endTime) \o <<",", "D", "e", "f", "a", "u", "l", "t", ",", ",", "0", ",", "0", ",", "0", ",", ",">> \o escapeText(entry.text)

\* Array.prototype.join('\n')
RECURSIVE joinLines(_)
joinLines(lines) ==
    IF lines = <<>> THEN <<>>
    ELSE IF Len(lines) = 1 THEN lines[1]
    ELSE lines[1] \o <<"\n">> \o joinLines(Tail(lines))

\* s || d for a string, n || d for a number, x || d for a double
orString(s, d) == IF s = <<>> THEN d ELSE s
orNumber(n, d) == IF n = 0 THEN d ELSE n
orDouble(x, d) == IF x.m = <<>> THEN d ELSE x

\* generateASSContent(entries, styleConfig, videoWidth, videoHeight)
generateASSContent(entries, cfg, videoWidth, videoHeight) ==
    LET fontFamily == orString(cfg.fontFamily, <<"A", "r", "i", "a", "l">>)
        fontSize == orNumber(cfg.fontSize, 48)
        primaryColor == hexToASSColor(orString(cfg.color, <<"#", "F", "F", "F", "F", "F", "F">>), fromInt(1))
        backColor == hexToASSColor(orString(cfg.backgroundColor, <<"#", "0", "0", "0", "0", "0", "0">>),
                                   orDouble(cfg.backgroundOpacity, fdiv(fromInt(6), 10)))
        yAlign == orNumber(cfg.yAlign, 75)
        marginV == round(fmul(oneMinus(fdiv(fromInt(yAlign), 100)), videoHeight))
        bold == IF parseInt(orString(cfg.fontWeight, <<"4", "0", "0">>)) >= 600 THEN 1 ELSE 0
        alignment == 2
        borderStyle == IF cfg.backgroundOpacity.m # <<>> THEN 3 ELSE 1
    IN [PlayResX |-> videoWidth,
        PlayResY |-> videoHeight,
        Style |-> [Fontname |-> fontFamily, Fontsize |-> fontSize,
                   PrimaryColour |-> primaryColor, BackColour |-> backColor,
                   Bold |-> bold, BorderStyle |-> borderStyle,
                   Alignment |-> alignment, MarginV |-> marginV],
        Events |-> joinLines([k \in 1..Len(entries) |-> dialogueLine(entries[k])])]

(***************************************************************************)
(* Processing difficulty                                                   *)
(***************************************************************************)
\* long division as divPart, ten bits at a time, for divisors below 2^20
RECURSIVE divPartWide(_, _, _)
divPartWide(b, d, r) ==
    IF b = <<>> THEN [q |-> <<>>, r |-> r]
    ELSE LET k == Min(10, Len(b))
             t == r * (2 ^ k) + valueOf(SubSeq(b, Len(b) - k + 1, Len(b)))
             rest == divPartWide(SubSeq(b, 1, Len(b) - k), d, t % d)
         IN [q |-> rest.q \o fixedBits(t \div d, k), r |-> rest.r]

\* x / d                  (d an integer below 2^20; the quotient is rounded)
fdivWide(x, d) ==
    LET x0 == divPartWide(shiftLeft(x.m, MantissaBits + 20), d, 0)
    IN roundToDouble(stripHigh(x0.q), x.e - (MantissaBits + 20), x0.r # 0)

\* x < n and x > n for a double x >= 0 and a natural n
lessThan(x, n) == floor(x) < n
greaterThan(x, n) == floor(x) > n \/ (floor(x) = n /\ x.e < 0)

\* variant: a video of exactly 60 seconds still counts as short
estimateProcessingDifficultyInclusive(videoDuration, videoWidth, videoHeight) ==
    LET pixels == fromInt(videoWidth * videoHeight)
        megapixels == fdivWide(pixels, 1000000)
    IN IF ~greaterThan(videoDuration, 60) /\ lessThan(megapixels, 2) THEN "easy"
       ELSE IF greaterThan(videoDuration, 180) \/ greaterThan(megapixels, 4) THEN "hard"
       ELSE "medium"

\* estimateProcessingDifficulty(videoDuration, videoWidth, videoHeight)
estimateProcessingDifficulty(videoDuration, videoWidth, videoHeight) ==
    LET pixels == fromInt(videoWidth * videoHeight)
        megapixels == fdivWide(pixels, 1000000)
    IN IF lessThan(videoDuration, 60) /\ lessThan(megapixels, 2) THEN "easy"
       ELSE IF greaterThan(videoDuration, 180) \/ greaterThan(megapixels, 4) THEN "hard"
       ELSE "medium"

(***************************************************************************)
(* The editor                                                              *)
(***************************************************************************)
\* Timeline: no drag going on, nothing reported; s is the subtitle shown
NoTimes == [startTime |-> 0, endTime |-> 0]
NoSnapshot == [set |-> FALSE, start |-> 0, end |-> 0]
NoTimeUpdate == [reported |-> FALSE, dragType |-> "null", startTime |-> 0, endTime |-> 0]

InitTimeline(s) ==
    /\ draggedSubtitle = s
    /\ isDragging = FALSE
    /\ dragType = "null"
    /\ dragSnapshot = NoSnapshot
    /\ dragStartTime = 0
    /\ timeUpdate = NoTimeUpdate

\* hooks/useHistory, as App uses it: the present value with the values undo
\* and redo lead to
history == [past |-> past, present |-> subtitles, future |-> future]

\* useHistory: init(value) starts a history over
useHistoryInit(value) == [past |-> <<>>, present |-> value, future |-> <<>>]

\* useHistory: set(value) records the present value and drops what redo led to
useHistorySet(h, value) ==
    [past |-> Append(h.past, h.present), present |-> value, future |-> <<>>]

\* useHistory: undo() goes back to the value recorded last
useHistoryUndo(h) ==
    [past |-> SubSeq(h.past, 1, Len(h.past) - 1),
     present |-> h.past[Len(h.past)],
     future |-> <<h.present>> \o h.future]

\* useHistory: redo() goes forward to the value undone last
useHistoryRedo(h) ==
    [past |-> Append(h.past, h.present),
     present |-> h.future[1],
     future |-> Tail(h.future)]

\* App: the history after a call of the hook
setHistory(h) ==
    /\ past' = h.past
    /\ subtitles' = h.present
    /\ future' = h.future

\* useHistory([]) with nothing to undo; no export modal, no ClientExporter
InitModal ==
    /\ past = <<>>
    /\ future = <<>>
    /\ exportState = "idle"
    /\ exportMode = "server"
    /\ clientDownloadUrl = FALSE
    /\ runs = <<>>

\* nothing sent to /burn yet; no utility called
NoRequest == [sent |-> FALSE, segments |-> <<>>, styleConfig |-> DEFAULT_STYLE]
NoCall == [fn |-> "none"]

Init ==
    /\ appState = "UPLOAD"
    /\ subtitles = <<>>
    /\ styleConfig = DEFAULT_STYLE
    /\ showExportModal = FALSE
    /\ subtitleEntries = <<>>
    /\ sentMillis = 0
    /\ seconds = jsonNumber(0)
    /\ srtTime = <<>>
    /\ assTime = <<>>
    /\ response = <<>>
    /\ burnRequest = NoRequest
    /\ call = NoCall
    /\ returned = FALSE
    /\ result = <<>>
    /\ threw = FALSE
    /\ InitTimeline(NoTimes)
    /\ InitModal

\* App.handleFileSelect
handleFileSelect ==
    /\ appState = "UPLOAD"
    /\ appState' = "PREVIEW"
    /\ UNCHANGED <<subtitles, styleConfig, showExportModal, subtitleEntries, timeVars, apiVars, callVars, dragVars, exportVars>>

\* App.handleGenerate up to the first await
handleGenerate ==
    /\ appState = "PREVIEW"
    /\ appState' = "GENERATING"
    /\ UNCHANGED <<subtitles, styleConfig, showExportModal, subtitleEntries, timeVars, apiVars, callVars, dragVars, exportVars>>

\* App.handleGenerate after generateSubtitles resolved
generateResolved ==
    /\ appState = "GENERATING"
    /\ \E segments \in BackendResponses :
          /\ response' = segments
          /\ setHistory(useHistoryInit(generateSubtitles(segments)))
    /\ appState' = "EDITOR"
    /\ UNCHANGED <<styleConfig, showExportModal, subtitleEntries, burnRequest, timeVars, callVars, dragVars, exportState, exportMode, clientDownloadUrl, runs>>

\* App.handleGenerate, catch branch
generateRejected ==
    /\ appState = "GENERATING"
    /\ appState' = "UPLOAD"
    /\ UNCHANGED <<subtitles, styleConfig, showExportModal, subtitleEntries, timeVars, apiVars, callVars, dragVars, exportVars>>

\* StyleEditor: update('displayMode', mode)
updateDisplayMode ==
    /\ appState = "EDITOR"
    /\ ~showExportModal
    /\ \E mode \in {"word", "phrase", "sentence"} :
          styleConfig' = [styleConfig EXCEPT !.displayMode = mode]
    /\ UNCHANGED <<appState, subtitles, showExportModal, subtitleEntries, timeVars, apiVars, callVars, dragVars, exportVars>>

\* StyleEditor: update('wordsPerLine', Number(e.target.value)) of the range
\* input min 2, max 8, step 1, shown in phrase mode
updateWordsPerLine ==
    /\ appState = "EDITOR"
    /\ ~showExportModal
    /\ styleConfig.displayMode = "phrase"
    /\ \E n \in {m \in 2..8 : m <= MaxWPL} :
          styleConfig' = [styleConfig EXCEPT !.wordsPerLine = n]
    /\ UNCHANGED <<appState, subtitles, showExportModal, subtitleEntries, timeVars, apiVars, callVars, dragVars, exportVars>>

\* the ClientExporter instances mounted in a behaviour
MaxRuns == 2

\* ClientExporter.runExport: the calls it awaits, in order; "load" is the race
\* of ffmpeg.load against the 30 s timer
Awaits ==
    <<"load", "fetchFile", "writeInput", "writeSubtitles", "exec", "readFile",
      "deleteInput", "deleteSubtitles", "deleteOutput">>

\* ClientExporter.runExport: `mounted && !abortRef.current`
mayReport(run) == run.mounted /\ ~run.abortRef

\* variant: the catch branch reports whatever happened to the instance
catchErrorUnguarded(run) ==
    [run EXCEPT !.pc = "done", !.loadTimeout = FALSE, !.stage = "error", !.onError = @ + 1]

\* ClientExporter.runExport, catch branch
catchError(run) ==
    IF mayReport(run)
    THEN [run EXCEPT !.pc = "done", !.loadTimeout = FALSE, !.stage = "error", !.onError = @ + 1]
    ELSE [run EXCEPT !.pc = "done", !.loadTimeout = FALSE]

\* ClientExporter.runExport of an instance just mounted, from its start to
\* the first await
runExport(sharedArrayBuffer) ==
    LET instance == [pc |-> "start", stage |-> "loading", mounted |-> TRUE,
                     abortRef |-> FALSE, loadTimeout |-> FALSE,
                     onComplete |-> 0, onError |-> 0]
    IN IF ~sharedArrayBuffer
       THEN catchError(instance)
       ELSE [instance EXCEPT !.pc = "load", !.loadTimeout = TRUE]

\* ClientExporter.runExport from the await at run.pc, resolved, to the next
\* await or to its end
afterAwait(run) ==
    IF run.pc = "load"
    THEN IF ~mayReport(run)
         THEN [run EXCEPT !.pc = "done", !.loadTimeout = FALSE]
         ELSE [run EXCEPT !.pc = "fetchFile", !.loadTimeout = FALSE, !.stage = "processing"]
    ELSE IF run.pc \in {"writeInput", "writeSubtitles", "exec"} /\ ~mayReport(run)
    THEN [run EXCEPT !.pc = "done"]
    ELSE IF run.pc = "deleteOutput"
    THEN IF mayReport(run)
         THEN [run EXCEPT !.pc = "done", !.stage = "complete", !.onComplete = @ + 1]
         ELSE [run EXCEPT !.pc = "done"]
    ELSE LET i == CHOOSE j \in 1..Len(Awaits) : Awaits[j] = run.pc
         IN [run EXCEPT !.pc = Awaits[i + 1]]

\* ClientExporter: the cleanup of the effect, at unmount
cleanup(run) == [run EXCEPT !.mounted = FALSE, !.abortRef = TRUE]

\* runExport of instance r went on to `new`.  Its onComplete is
\* ExportModal.handleClientExportComplete, its onError
\* ExportModal.handleClientExportError; the modal renders the ClientExporter
\* only while exportState is 'client-exporting'.
runExportStep(r, new) ==
    LET completed == new.onComplete > runs[r].onComplete
        failed == new.onError > runs[r].onError
        state == IF ~showExportModal \/ ~(completed \/ failed) THEN exportState
                 ELSE IF completed THEN "complete" ELSE "idle"
    IN /\ exportState' = state
       /\ clientDownloadUrl' = (clientDownloadUrl \/ (completed /\ showExportModal))
       /\ runs' = [i \in 1..Len(runs) |->
                     LET run == IF i = r THEN new ELSE runs[i]
                     IN IF /\ i = Len(runs)
                           /\ exportState = "client-exporting"
                           /\ state # "client-exporting"
                        THEN cleanup(run) ELSE run]

\* App.handleExportClick; ExportModal mounts and its useMemo runs
handleExportClick ==
    /\ appState = "EDITOR"
    /\ ~showExportModal
    /\ showExportModal' = TRUE
    /\ subtitleEntries' = buildSubtitleEntries(subtitles, styleConfig)
    /\ exportState' = "idle"
    /\ exportMode' = "server"
    /\ clientDownloadUrl' = FALSE
    /\ UNCHANGED <<appState, subtitles, styleConfig, timeVars, apiVars, callVars, dragVars, past, future, runs>>

\* ExportModal: isExporting
isExporting == exportState \in {"exporting", "client-exporting"}

\* ExportModal onClose, from the Close button, disabled while isExporting; the
\* modal unmounts and its state is gone
onClose ==
    /\ showExportModal
    /\ ~isExporting
    /\ showExportModal' = FALSE
    /\ subtitleEntries' = <<>>
    /\ exportState' = "idle"
    /\ exportMode' = "server"
    /\ clientDownloadUrl' = FALSE
    /\ UNCHANGED <<appState, subtitles, styleConfig, timeVars, apiVars, callVars, dragVars, past, future, runs>>

\* ExportModal.handleExportVideo, from Export Video or Download Both, both
\* disabled while isExporting.  Server mode: exportVideo posts to /burn.
\* Client mode: the ClientExporter mounts and its effect starts runExport.
handleExportVideo ==
    /\ showExportModal
    /\ ~isExporting
    /\ IF exportMode = "client"
       THEN /\ Len(runs) < MaxRuns
            /\ \E sharedArrayBuffer \in BOOLEAN :
                  LET run == runExport(sharedArrayBuffer)
                  IN /\ runs' = Append(runs, IF run.onError = 1 THEN cleanup(run) ELSE run)
                     /\ exportState' = IF run.onError = 1 THEN "idle" ELSE "client-exporting"
            /\ UNCHANGED burnRequest
       ELSE /\ exportState' = "exporting"
            /\ burnRequest' = exportVideo(subtitles, styleConfig)
            /\ UNCHANGED runs
    /\ UNCHANGED <<editorVars, response, timeVars, callVars, dragVars, past, future, exportMode, clientDownloadUrl>>

\* ExportModal.handleExportVideo after exportVideo resolved
exportVideoResolved ==
    /\ exportState = "exporting"
    /\ exportState' = "complete"
    /\ burnRequest' = NoRequest
    /\ UNCHANGED <<editorVars, response, timeVars, callVars, dragVars, past, future, exportMode, clientDownloadUrl, runs>>

\* ExportModal.handleExportVideo, catch branch
exportVideoRejected ==
    /\ exportState = "exporting"
    /\ exportState' = "idle"
    /\ burnRequest' = NoRequest
    /\ UNCHANGED <<editorVars, response, timeVars, callVars, dragVars, past, future, exportMode, clientDownloadUrl, runs>>

\* App.handleConfirmDiscard.  setSubtitles([]) leaves the editor: undo and
\* redo are reached in the editor only, which handleGenerate enters after
\* initSubtitles, so the history it leaves behind is never read and is kept
\* here as the one initSubtitles will start
handleConfirmDiscard ==
    /\ appState = "EDITOR"
    /\ ~showExportModal
    /\ appState' = "UPLOAD"
    /\ setHistory(useHistoryInit(<<>>))
    /\ response' = <<>>
    /\ UNCHANGED <<styleConfig, showExportModal, subtitleEntries, burnRequest, timeVars, callVars, dragVars, exportState, exportMode, clientDownloadUrl, runs>>

Next ==
    \/ handleFileSelect
    \/ handleGenerate
    \/ generateResolved
    \/ generateRejected
    \/ updateDisplayMode
    \/ updateWordsPerLine
    \/ handleExportClick
    \/ handleExportVideo
    \/ exportVideoResolved
    \/ exportVideoRejected
    \/ onClose
    \/ handleConfirmDiscard

Spec == Init /\ [][Next]_vars


(***************************************************************************)
(* The exports of one entry time: the /process response carried the        *)
(* decimal sentMillis/1000, the generators format the number it became.        *)
(***************************************************************************)
LongTimes == {1500, 59999, 60000, 61005, 3599999, 3600000, 3661999,
              36000000, 360000000}
TimeSamples == (0..MaxMillis) \cup LongTimes

InitTime ==
    /\ appState = "UPLOAD"
    /\ subtitles = <<>>
    /\ styleConfig = DEFAULT_STYLE
    /\ showExportModal = FALSE
    /\ subtitleEntries = <<>>
    /\ sentMillis \in TimeSamples
    /\ seconds = jsonNumber(sentMillis)
    /\ srtTime = <<>>
    /\ assTime = <<>>
    /\ response = <<>>
    /\ burnRequest = NoRequest
    /\ call = NoCall
    /\ returned = FALSE
    /\ result = <<>>
    /\ threw = FALSE
    /\ InitTimeline(NoTimes)
    /\ InitModal

\* ExportModal.handleExportSRT: generateSRTContent formats the time
exportSRT ==
    /\ srtTime = <<>>
    /\ srtTime' = formatTime(seconds)
    /\ UNCHANGED <<editorVars, sentMillis, seconds, assTime, apiVars, callVars, dragVars, exportVars>>

\* generateASSContent formats the time of the Dialogue line
exportASS ==
    /\ assTime = <<>>
    /\ assTime' = formatASSTime(seconds)
    /\ UNCHANGED <<editorVars, sentMillis, seconds, srtTime, apiVars, callVars, dragVars, exportVars>>

NextTime ==
    \/ exportSRT
    \/ exportASS

SpecTime == InitTime /\ [][NextTime]_vars

(***************************************************************************)
(* Calls of the export utilities: one call, drawn from the arguments       *)
(* below, and its return.                                                  *)
(***************************************************************************)
\* colour strings: well-formed ones, with and without '#', in either case,
\* and malformed ones
HexStrings ==
    { <<"#", "F", "F", "F", "F", "F", "F">>,
      <<"#", "0", "0", "0", "0", "0", "0">>,
      <<"f", "f", "8", "8", "0", "0">>,
      <<"#", "1", "a", "2", "B", "3", "c">>,
      <<>>,
      <<"#">>,
      <<"#", "F", "F", "F">>,
      <<"1", "2", "3", "4", "5", "6", "7">>,
      <<"#", "1", "2", "#", "4", "5", "6">>,
      <<"g", "g", "g", "g", "g", "g">>,
      <<"#", "1", "2", "3", "4", "5", "z">> }

\* opacities, in hundredths
Percents == 0..100

\* the number written as the decimal c/100 (parseFloat, a numeric literal)
hundredths(c) == fdiv(fromInt(c), 100)

ColourCalls ==
    {[fn |-> "hexToASSColor", hex |-> h, percent |-> c, opacity |-> hundredths(c)] :
        h \in HexStrings, c \in Percents}

\* entries handed to the generators: times in milliseconds as the response
\* wrote them, and the numbers they became
entryOf(text, startMillis, endMillis) ==
    [text |-> text, startTime |-> jsonNumber(startMillis), endTime |-> jsonNumber(endMillis)]

EntryPool ==
    { entryOf(<<"H", "e", "l", "l", "o">>, 500, 2500),
      entryOf(<<"W", "o", "r", "l", "d">>, 3000, 5000),
      entryOf(<<"a", "\n", "b", "\r", "\n", "c">>, 5000, 3000),
      entryOf(<<>>, 0, 0) }

RECURSIVE EntryLists(_)
EntryLists(n) ==
    IF n = 0 THEN {<<>>}
    ELSE EntryLists(n - 1)
         \cup {Append(l, x) : l \in {m \in EntryLists(n - 1) : Len(m) = n - 1}, x \in EntryPool}

SRTCalls == {[fn |-> "generateSRTContent", entries |-> l] : l \in EntryLists(MaxEntries)}

\* style configurations: the default one with one field changed
BaseStyle ==
    [fontFamily |-> <<"I", "n", "t", "e", "r">>, fontSize |-> 24, fontWeight |-> <<"7", "0", "0">>,
     color |-> <<"#", "F", "F", "F", "F", "F", "F">>, backgroundColor |-> <<"#", "0", "0", "0", "0", "0", "0">>,
     backgroundOpacity |-> hundredths(60), yAlign |-> 85]

VideoHeights == {1920, 1080, 720}

assCall(entries, cfg, percent, videoHeight) ==
    [fn |-> "generateASSContent", entries |-> entries, cfg |-> cfg, percent |-> percent,
     videoWidth |-> 1080, videoHeight |-> videoHeight]

ASSCalls ==
    {assCall(l, BaseStyle, 60, 1920) : l \in EntryLists(MaxEntries)}
    \cup {assCall(<<>>, [BaseStyle EXCEPT !.backgroundOpacity = hundredths(c),
                                             !.backgroundColor = h], c, 1920) :
             c \in Percents, h \in {<<"#", "0", "0", "0", "0", "0", "0">>, <<>>, <<"#", "f", "f", "d", "7", "0", "0">>}}
    \cup {assCall(<<>>, [BaseStyle EXCEPT !.yAlign = y], 60, h) :
             y \in 0..100, h \in VideoHeights}
    \cup {assCall(<<>>, [BaseStyle EXCEPT !.fontWeight = w, !.color = c,
                                             !.fontFamily = f, !.fontSize = n], 60, 1920) :
             w \in {<<"7", "0", "0">>, <<"4", "0", "0">>, <<>>}, c \in {<<"#", "F", "F", "F", "F", "F", "F">>, <<>>}, f \in {<<"I", "n", "t", "e", "r">>, <<>>},
             n \in {24, 0}}

\* durations in milliseconds and frame sizes around the two thresholds
DurationMillis == {0, 30000, 59999, 60000, 60001, 120000, 180000, 180001, 200000}
FrameSizes ==
    { <<720, 1280>>, <<1080, 1920>>, <<3840, 2160>>, <<1000, 2000>>, <<1999, 1000>>,
      <<2000, 2000>>, <<2000, 2001>>, <<1, 1>> }

DifficultyCalls ==
    {[fn |-> "estimateProcessingDifficulty", millis |-> d, videoDuration |-> jsonNumber(d),
      videoWidth |-> f[1], videoHeight |-> f[2]] :
        d \in DurationMillis, f \in FrameSizes}

\* segment lists and style configurations handed to the entry builder
BuilderStyles ==
    {DEFAULT_STYLE, [displayMode |-> "sentence", wordsPerLine |-> 0],
     [displayMode |-> "word", wordsPerLine |-> 0]}
    \cup {[displayMode |-> "phrase", wordsPerLine |-> n] : n \in 0..MaxWPL}

BuilderCalls ==
    {[fn |-> "buildSubtitleEntries", subtitles |-> generateSubtitles(r), cfg |-> c] :
        r \in {<<>>} \cup BackendChains
              \cup {<<x>> : x \in {y \in BackendSegments :
                                     y.start = 1 /\ y.text = <<"o", "k">>}},
        c \in BuilderStyles}

Calls == ColourCalls \cup SRTCalls \cup ASSCalls \cup DifficultyCalls \cup BuilderCalls

InitCall ==
    /\ appState = "UPLOAD"
    /\ subtitles = <<>>
    /\ styleConfig = DEFAULT_STYLE
    /\ showExportModal = FALSE
    /\ subtitleEntries = <<>>
    /\ sentMillis = 0
    /\ seconds = jsonNumber(0)
    /\ srtTime = <<>>
    /\ assTime = <<>>
    /\ response = <<>>
    /\ burnRequest = NoRequest
    /\ call \in Calls
    /\ returned = FALSE
    /\ result = <<>>
    /\ threw = FALSE
    /\ InitTimeline(NoTimes)
    /\ InitModal

\* hexToASSColor called and returning
callHexToASSColor ==
    /\ call.fn = "hexToASSColor"
    /\ ~returned
    /\ returned' = TRUE
    /\ threw' = FALSE
    /\ result' = hexToASSColor(call.hex, call.opacity)
    /\ UNCHANGED <<call, editorVars, timeVars, apiVars, dragVars, exportVars>>

\* generateSRTContent called and returning
callGenerateSRTContent ==
    /\ call.fn = "generateSRTContent"
    /\ ~returned
    /\ returned' = TRUE
    /\ threw' = FALSE
    /\ result' = generateSRTContent(call.entries)
    /\ UNCHANGED <<call, editorVars, timeVars, apiVars, dragVars, exportVars>>

\* generateASSContent called and returning
callGenerateASSContent ==
    /\ call.fn = "generateASSContent"
    /\ ~returned
    /\ returned' = TRUE
    /\ threw' = FALSE
    /\ result' = generateASSContent(call.entries, call.cfg, call.videoWidth, call.videoHeight)
    /\ UNCHANGED <<call, editorVars, timeVars, apiVars, dragVars, exportVars>>

\* estimateProcessingDifficulty called and returning
callEstimateProcessingDifficulty ==
    /\ call.fn = "estimateProcessingDifficulty"
    /\ ~returned
    /\ returned' = TRUE
    /\ threw' = FALSE
    /\ result' = estimateProcessingDifficulty(call.videoDuration, call.videoWidth,
                                               call.videoHeight)
    /\ UNCHANGED <<call, editorVars, timeVars, apiVars, dragVars, exportVars>>

\* buildSubtitleEntries called, and returning or throwing
callBuildSubtitleEntries ==
    /\ call.fn = "buildSubtitleEntries"
    /\ ~returned
    /\ ~threw
    /\ threw' = buildThrows(call.subtitles, call.cfg)
    /\ returned' = ~threw'
    /\ result' = IF threw' THEN <<>> ELSE buildSubtitleEntries(call.subtitles, call.cfg)
    /\ UNCHANGED <<call, editorVars, timeVars, apiVars, dragVars, exportVars>>

NextCall ==
    \/ callBuildSubtitleEntries
    \/ callEstimateProcessingDifficulty
    \/ callHexToASSColor
    \/ callGenerateSRTContent
    \/ callGenerateASSContent

SpecCall == InitCall /\ [][NextCall]_vars

(***************************************************************************)
(* The timeline: dragging a subtitle block or one of its resize handles.   *)
(* Times are in tenths of a second; the time under the mouse is            *)
(* getTimeAtMouse(clientX) = Math.max(0, offsetX / pxPerSec).              *)
(***************************************************************************)
MaxTenths == 6
MinDuration == 2

MouseTimes == 0..MaxTenths

\* a subtitle of the editor with 0 <= startTime < endTime
TimelineSubtitles ==
    {s \in [startTime : 0..3, endTime : 1..4] : s.startTime < s.endTime}

\* updateDrag, subtitle manipulation: the (newStart, newEnd) handed to
\* onSubtitleTimeUpdate
updateDrag(type, snapshot, startTime, currentTimeAtMouse) ==
    LET dt == currentTimeAtMouse - startTime
    IN IF type = "move"
       THEN IF snapshot.start + dt < 0
            THEN [startTime |-> 0, endTime |-> snapshot.end - snapshot.start]
            ELSE [startTime |-> snapshot.start + dt, endTime |-> snapshot.end + dt]
       ELSE IF type = "resize-l"
       THEN LET moved == snapshot.start + dt
                limited == IF moved > snapshot.end - MinDuration
                           THEN snapshot.end - MinDuration ELSE moved
            IN [startTime |-> IF limited < 0 THEN 0 ELSE limited,
                endTime |-> snapshot.end]
       ELSE [startTime |-> snapshot.start,
             endTime |-> IF snapshot.end + dt < snapshot.start + MinDuration
                         THEN snapshot.start + MinDuration ELSE snapshot.end + dt]

InitDrag ==
    /\ appState = "EDITOR"
    /\ subtitles = <<>>
    /\ styleConfig = DEFAULT_STYLE
    /\ showExportModal = FALSE
    /\ subtitleEntries = <<>>
    /\ sentMillis = 0
    /\ seconds = jsonNumber(0)
    /\ srtTime = <<>>
    /\ assTime = <<>>
    /\ response = <<>>
    /\ burnRequest = NoRequest
    /\ call = NoCall
    /\ returned = FALSE
    /\ result = <<>>
    /\ threw = FALSE
    /\ \E s \in TimelineSubtitles : InitTimeline(s)
    /\ InitModal

\* Timeline.handleMouseDown on the block ('move'), on a resize handle or on
\* the ruler ('scrub')
handleMouseDown ==
    /\ ~isDragging
    /\ \E type \in {"move", "resize-l", "resize-r", "scrub"}, startT \in MouseTimes :
          /\ isDragging' = TRUE
          /\ dragType' = type
          /\ dragStartTime' = startT
          /\ dragSnapshot' = IF type # "scrub"
                             THEN [set |-> TRUE, start |-> draggedSubtitle.startTime,
                                   end |-> draggedSubtitle.endTime]
                             ELSE dragSnapshot
    /\ UNCHANGED <<draggedSubtitle, timeUpdate, editorVars, timeVars, apiVars, callVars, exportVars>>

\* Timeline.handleGlobalMouseMove -> updateDrag -> onSubtitleTimeUpdate, and
\* App.updateSubtitleTime storing the times
handleGlobalMouseMove ==
    /\ isDragging
    /\ \E currentTimeAtMouse \in MouseTimes :
          IF dragType # "scrub" /\ dragSnapshot.set
          THEN LET new == updateDrag(dragType, dragSnapshot, dragStartTime, currentTimeAtMouse)
               IN /\ new.endTime <= MaxTenths
                  /\ timeUpdate' = [reported |-> TRUE, dragType |-> dragType,
                                    startTime |-> new.startTime, endTime |-> new.endTime]
                  /\ draggedSubtitle' = new
          ELSE UNCHANGED <<timeUpdate, draggedSubtitle>>
    /\ UNCHANGED <<isDragging, dragType, dragSnapshot, dragStartTime,
                   editorVars, timeVars, apiVars, callVars, exportVars>>

\* Timeline.handleGlobalMouseUp
handleGlobalMouseUp ==
    /\ isDragging
    /\ isDragging' = FALSE
    /\ dragType' = "null"
    /\ dragSnapshot' = NoSnapshot
    /\ UNCHANGED <<draggedSubtitle, dragStartTime, timeUpdate,
                   editorVars, timeVars, apiVars, callVars, exportVars>>

NextDrag ==
    \/ handleMouseDown
    \/ handleGlobalMouseMove
    \/ handleGlobalMouseUp

SpecDrag == InitDrag /\ [][NextDrag]_vars

(***************************************************************************)
(* The export modal over the editor: edits and undo / redo of the          *)
(* subtitles, the server export and the in-browser export of               *)
(* ClientExporter with its transcoding collaborator (FFmpeg.wasm)          *)
(***************************************************************************)
\* the editor opened on a response of one segment, with or without words,
\* in the default style or in sentence mode
InitExport ==
    /\ appState = "EDITOR"
    /\ \E segments \in {backendChain(1, 0, 1, 1, hasWords, 1) : hasWords \in BOOLEAN} :
          /\ response = segments
          /\ subtitles = generateSubtitles(segments)
    /\ styleConfig \in {DEFAULT_STYLE, [displayMode |-> "sentence", wordsPerLine |-> 0]}
    /\ showExportModal = FALSE
    /\ subtitleEntries = <<>>
    /\ sentMillis = 0
    /\ seconds = jsonNumber(0)
    /\ srtTime = <<>>
    /\ assTime = <<>>
    /\ burnRequest = NoRequest
    /\ call = NoCall
    /\ returned = FALSE
    /\ result = <<>>
    /\ threw = FALSE
    /\ InitTimeline(NoTimes)
    /\ InitModal

\* ExportModal: useMemo(() => buildSubtitleEntries(subtitles, styleConfig),
\* [subtitles, styleConfig]) when App rendered with the subtitles subs
useMemo(subs) ==
    IF showExportModal THEN buildSubtitleEntries(subs, styleConfig) ELSE subtitleEntries

\* App.deleteSubtitle, from the subtitle list under the modal's overlay:
\* useHistory's set
deleteSubtitle ==
    /\ appState = "EDITOR"
    /\ ~showExportModal
    /\ \E k \in 1..Len(subtitles) :
          setHistory(useHistorySet(history,
              [i \in 1..(Len(subtitles) - 1) |->
                  IF i < k THEN subtitles[i] ELSE subtitles[i + 1]]))
    /\ UNCHANGED <<appState, styleConfig, showExportModal, subtitleEntries,
                   timeVars, apiVars, callVars, dragVars, exportState, exportMode, clientDownloadUrl, runs>>

\* App.handleKeyDown, Ctrl+Z, or the undo button, disabled unless canUndo:
\* useHistory's undo
undoSubtitles ==
    /\ appState = "EDITOR"
    /\ history.past # <<>>
    /\ setHistory(useHistoryUndo(history))
    /\ subtitleEntries' = useMemo(useHistoryUndo(history).present)
    /\ UNCHANGED <<appState, styleConfig, showExportModal,
                   timeVars, apiVars, callVars, dragVars, exportState, exportMode, clientDownloadUrl, runs>>

\* App.handleKeyDown, Ctrl+Shift+Z or Ctrl+Y, or the redo button, disabled
\* unless canRedo: useHistory's redo
redoSubtitles ==
    /\ appState = "EDITOR"
    /\ history.future # <<>>
    /\ setHistory(useHistoryRedo(history))
    /\ subtitleEntries' = useMemo(useHistoryRedo(history).present)
    /\ UNCHANGED <<appState, styleConfig, showExportModal,
                   timeVars, apiVars, callVars, dragVars, exportState, exportMode, clientDownloadUrl, runs>>

\* ExportModal: setExportMode, from the Export Method buttons
setExportMode ==
    /\ showExportModal
    /\ exportState # "client-exporting"
    /\ \E mode \in {"server", "client"} : exportMode' = mode
    /\ UNCHANGED <<editorVars, timeVars, apiVars, callVars, dragVars,
                   past, future, exportState, clientDownloadUrl, runs>>

\* the collaborator settles the call runExport of instance r awaits: resolved
collaboratorResolves ==
    /\ \E r \in 1..Len(runs) :
          /\ runs[r].pc # "done"
          /\ runExportStep(r, afterAwait(runs[r]))
    /\ UNCHANGED <<editorVars, timeVars, apiVars, callVars, dragVars,
                   past, future, exportMode>>

\* the collaborator settles the call runExport of instance r awaits: rejected
collaboratorRejects ==
    /\ \E r \in 1..Len(runs) :
          /\ runs[r].pc # "done"
          /\ runExportStep(r, catchError(runs[r]))
    /\ UNCHANGED <<editorVars, timeVars, apiVars, callVars, dragVars,
                   past, future, exportMode>>

\* ClientExporter.runExport: the timer of timeoutPromise fires before
\* ffmpeg.load settled
loadTimedOut ==
    /\ \E r \in 1..Len(runs) :
          /\ runs[r].pc = "load"
          /\ runs[r].loadTimeout
          /\ runExportStep(r, catchError(runs[r]))
    /\ UNCHANGED <<editorVars, timeVars, apiVars, callVars, dragVars,
                   past, future, exportMode>>

\* ClientExporter.handleCancel, from the Cancel button, and
\* ExportModal.handleClientExportCancel; the ClientExporter unmounts
handleCancel ==
    /\ exportState = "client-exporting"
    /\ runs[Len(runs)].stage \notin {"complete", "error"}
    /\ runs' = [runs EXCEPT ![Len(runs)] = cleanup([@ EXCEPT !.abortRef = TRUE])]
    /\ exportState' = "idle"
    /\ UNCHANGED <<editorVars, timeVars, apiVars, callVars, dragVars,
                   past, future, exportMode, clientDownloadUrl>>

NextExport ==
    \/ deleteSubtitle
    \/ undoSubtitles
    \/ redoSubtitles
    \/ handleExportClick
    \/ setExportMode
    \/ handleExportVideo
    \/ exportVideoResolved
    \/ exportVideoRejected
    \/ collaboratorResolves
    \/ collaboratorRejects
    \/ loadTimedOut
    \/ handleCancel
    \/ onClose

SpecExport == InitExport /\ [][NextExport]_vars

(***************************************************************************)
(* Vocabulary of the properties                                            *)
(***************************************************************************)
\* the entries the export modal holds for segment k: the slice of
\* subtitleEntries after the entries of segments 1..k-1
RECURSIVE entriesBefore(_)
entriesBefore(k) ==
    IF k = 1 THEN 0
    ELSE entriesBefore(k - 1) + Len(segmentEntries(subtitles[k - 1], styleConfig))

entriesOf(k) ==
    SubSeq(subtitleEntries, entriesBefore(k) + 1,
           entriesBefore(k) + Len(segmentEntries(subtitles[k], styleConfig)))

withWords(k) == subtitles[k].words.present /\ Len(subtitles[k].words.list) > 0
wordsOf(k) == subtitles[k].words.list

\* t is s without its leading and trailing whitespace
isTrimOf(t, s) ==
    /\ (t # <<>> => t[1] \notin Whitespace /\ t[Len(t)] \notin Whitespace)
    /\ \E i \in 0..Len(s) : \E j \in i..Len(s) :
          /\ t = SubSeq(s, i + 1, j)
          /\ \A x \in (1..i) \cup ((j + 1)..Len(s)) : s[x] \in Whitespace

\* a chunking of n words: the set of indices after which a chunk ends
Chunkings(n) == {c \in SUBSET (1..n) : n \in c}
chunkLast(c, j) == CHOOSE x \in c : Cardinality({y \in c : y <= x}) = j
chunkFirst(c, j) == IF j = 1 THEN 1 ELSE chunkLast(c, j - 1) + 1

\* text is the words a..b of ws, each trimmed, separated by single spaces
RECURSIVE isJoinOf(_, _, _, _)
isJoinOf(text, ws, a, b) ==
    IF a = b THEN isTrimOf(text, ws[a].text)
    ELSE \E i \in 1..Len(text) :
            /\ text[i] = " "
            /\ isTrimOf(SubSeq(text, 1, i - 1), ws[a].text)
            /\ \A x \in 1..(i - 1) : text[x] # " "
            /\ isJoinOf(SubSeq(text, i + 1, Len(text)), ws, a + 1, b)

\* the entries es are the chunks of c over the words of segment k, each
\* starting with its first word
entriesFollow(es, k, c) ==
    /\ Len(es) = Cardinality(c)
    /\ \A j \in 1..Len(es) :
          /\ isJoinOf(es[j].text, wordsOf(k), chunkFirst(c, j), chunkLast(c, j))
          /\ es[j].startTime = wordsOf(k)[chunkFirst(c, j)].startTime

\* gap-fill: each chunk ends where the following word starts, at most at
\* the segment end; the last chunk ends at the segment end
gapFilled(es, k, c) ==
    \A j \in 1..Len(es) :
        LET last == chunkLast(c, j) IN
        es[j].endTime = IF last < Len(wordsOf(k))
                        THEN Min(wordsOf(k)[last + 1].startTime, subtitles[k].endTime)
                        ELSE subtitles[k].endTime

numberOfWords(text) == 1 + Cardinality({i \in 1..Len(text) : text[i] = " "})

sortedByStart(es) ==
    \A i \in 1..(Len(es) - 1) : es[i].startTime <= es[i + 1].startTime

ascendingNonOverlapping(subs) ==
    \A i \in 1..(Len(subs) - 1) :
        /\ subs[i].startTime <= subs[i + 1].startTime
        /\ subs[i].endTime <= subs[i + 1].startTime

(***************************************************************************)
(* C1  Gap-fill: in word and phrase modes, for every segment with words,   *)
(* every non-final word/chunk entry ends at min(start of the word that     *)
(* follows it, segment.endTime) and the final entry ends at                *)
(* segment.endTime.                                                        *)
(***************************************************************************)
C1_GapFill ==
    showExportModal =>
        \A k \in 1..Len(subtitles) : withWords(k) =>
            /\ styleConfig.displayMode = "word" =>
                  /\ entriesFollow(entriesOf(k), k, 1..Len(wordsOf(k)))
                  /\ gapFilled(entriesOf(k), k, 1..Len(wordsOf(k)))
            /\ styleConfig.displayMode = "phrase" =>
                  \E c \in Chunkings(Len(wordsOf(k))) :
                      /\ entriesFollow(entriesOf(k), k, c)
                      /\ gapFilled(entriesOf(k), k, c)

\* an exported phrase/word segment whose first entry was extended over a
\* pause to the next word, and another clamped to the segment end
W_C1 ==
    /\ showExportModal
    /\ styleConfig.displayMode \in {"word", "phrase"}
    /\ \E k \in 1..Len(subtitles) :
          /\ withWords(k)
          /\ Len(entriesOf(k)) >= 2
          /\ entriesOf(k)[1].endTime > wordsOf(k)[1].endTime
          /\ entriesOf(k)[1].endTime < subtitles[k].endTime
          /\ entriesOf(k)[Len(entriesOf(k))].endTime = subtitles[k].endTime

(***************************************************************************)
(* C2  Fallback: a segment whose words field is undefined or empty yields  *)
(* exactly one entry {segment.text trimmed, segment.startTime,             *)
(* segment.endTime}, whatever displayMode is configured.                   *)
(***************************************************************************)
C2_Fallback ==
    showExportModal =>
        \A k \in 1..Len(subtitles) :
            (~subtitles[k].words.present \/ subtitles[k].words.list = <<>>) =>
                /\ Len(entriesOf(k)) = 1
                /\ isTrimOf(entriesOf(k)[1].text, subtitles[k].text)
                /\ entriesOf(k)[1].startTime = subtitles[k].startTime
                /\ entriesOf(k)[1].endTime = subtitles[k].endTime

\* an export in word or phrase mode of a segment with an empty words array
\* whose text has surrounding whitespace
W_C2 ==
    /\ showExportModal
    /\ styleConfig.displayMode \in {"word", "phrase"}
    /\ \E k \in 1..Len(subtitles) :
          /\ subtitles[k].words.present
          /\ subtitles[k].words.list = <<>>
          /\ subtitles[k].text[1] = " "
          /\ Len(entriesOf(k)) = 1

\* a segment of positive length whose words lie inside it, each of them
\* starting before it ends and ending no later than the next one starts
wellTimed(sub) ==
    /\ sub.startTime < sub.endTime
    /\ \A i \in 1..Len(sub.words.list) :
        LET word == sub.words.list[i]
        IN /\ sub.startTime <= word.startTime
           /\ word.startTime <= word.endTime
           /\ word.endTime <= sub.endTime
           /\ i > 1 => sub.words.list[i - 1].endTime <= word.startTime

\* a text as the overlay renders it: runs of white space collapse to one
\* space and white space at either end is dropped
rendered(text) ==
    LET kept == {i \in 1..Len(text) :
                    text[i] \notin Whitespace \/ (i > 1 /\ text[i - 1] \notin Whitespace)}
        nth(k) == CHOOSE i \in kept : Cardinality({j \in kept : j <= i}) = k
        glyph(c) == IF c \in Whitespace THEN " " ELSE c
    IN trimEnd([k \in 1..Cardinality(kept) |-> glyph(text[nth(k)])])

(***************************************************************************)
(* C3  The live preview and the exports show the same thing: at every      *)
(* playback time t inside a segment, the text App getDisplayedText shows   *)
(* is the text of the entry active at t (nothing when no entry is active). *)
(***************************************************************************)
C3_PreviewEqualsExport ==
    (/\ showExportModal
     /\ styleConfig.displayMode \in {"sentence", "word", "phrase"}
     /\ \A k \in 1..Len(subtitles) : wellTimed(subtitles[k])) =>
        \A t \in Times :
            activeSubtitleIndex(subtitles, t) # 0 =>
                rendered(shownText(AppGetDisplayedText(subtitles, styleConfig, t)))
                    = rendered(shownText(ExportGetDisplayedText(subtitleEntries, t)))

(***************************************************************************)
(* C5  Entry ordering: whenever the input segments are ascending by start  *)
(* time and non-overlapping, the entries are in non-decreasing startTime   *)
(* order, in every display mode.                                           *)
(***************************************************************************)
C5_EntryOrdering_Original ==
    (showExportModal /\ ascendingNonOverlapping(subtitles)) =>
        sortedByStart(subtitleEntries)

\* every word of every segment starts inside its segment, no earlier than
\* the word before it
wordsOrderedInside(subs) ==
    \A k \in 1..Len(subs) :
        \A i \in 1..Len(subs[k].words.list) :
            /\ subs[k].words.list[i].startTime >= subs[k].startTime
            /\ subs[k].words.list[i].startTime <= subs[k].endTime
            /\ i > 1 => subs[k].words.list[i - 1].startTime <= subs[k].words.list[i].startTime

\* amended: ... and the words of each segment are in non-decreasing start
\* order and start inside their segment
C5_EntryOrdering ==
    (showExportModal /\ ascendingNonOverlapping(subtitles) /\ wordsOrderedInside(subtitles)) =>
        sortedByStart(subtitleEntries)

\* two segments with words exported in word or phrase mode
W_C5 ==
    /\ showExportModal
    /\ styleConfig.displayMode \in {"word", "phrase"}
    /\ Len(subtitles) >= 2
    /\ \A k \in 1..Len(subtitles) : withWords(k)
    /\ ascendingNonOverlapping(subtitles)
    /\ wordsOrderedInside(subtitles)
    /\ Len(subtitleEntries) >= 3

(***************************************************************************)
(* C6  Entry validity: for every segment with startTime < endTime whose    *)
(* words have non-decreasing start times lying within the segment, every   *)
(* entry emitted for it satisfies startTime < endTime.                     *)
(***************************************************************************)
C6_EntryValidity_Original ==
    showExportModal =>
        \A k \in 1..Len(subtitles) :
            (subtitles[k].startTime < subtitles[k].endTime
                /\ wordsOrderedInside(<<subtitles[k]>>)) =>
                \A j \in 1..Len(entriesOf(k)) :
                    entriesOf(k)[j].startTime < entriesOf(k)[j].endTime

\* every word starts inside [startTime, endTime) and strictly after the
\* word before it
wordsStrictlyInside(sub) ==
    \A i \in 1..Len(sub.words.list) :
        /\ sub.words.list[i].startTime >= sub.startTime
        /\ sub.words.list[i].startTime < sub.endTime
        /\ i > 1 => sub.words.list[i - 1].startTime < sub.words.list[i].startTime

\* amended: ... whose words have strictly increasing start times lying in
\* [startTime, endTime) ...
C6_EntryValidity ==
    showExportModal =>
        \A k \in 1..Len(subtitles) :
            (subtitles[k].startTime < subtitles[k].endTime
                /\ wordsStrictlyInside(subtitles[k])) =>
                \A j \in 1..Len(entriesOf(k)) :
                    entriesOf(k)[j].startTime < entriesOf(k)[j].endTime

\* a segment with three strictly ordered words exported in word or phrase
\* mode
W_C6 ==
    /\ showExportModal
    /\ styleConfig.displayMode \in {"word", "phrase"}
    /\ \E k \in 1..Len(subtitles) :
          /\ Len(wordsOf(k)) >= 3
          /\ subtitles[k].startTime < subtitles[k].endTime
          /\ wordsStrictlyInside(subtitles[k])
          /\ Len(entriesOf(k)) >= 2


(***************************************************************************)
(* Reading a timecode back                                                 *)
(***************************************************************************)
digitValue(c) == CHOOSE d \in 0..9 : digitChar(d) = c

\* the number written by a string of decimal digits
RECURSIVE numberOf(_)
numberOf(ds) ==
    IF ds = <<>> THEN 0
    ELSE 10 * numberOf(SubSeq(ds, 1, Len(ds) - 1)) + digitValue(ds[Len(ds)])

\* the fields of a timecode between its separators
separatorsOf(tc) == {i \in 1..Len(tc) : tc[i] \in {":", ",", "."}}
nthSeparator(tc, n) ==
    IF n = 0 THEN 0
    ELSE IF n > Cardinality(separatorsOf(tc)) THEN Len(tc) + 1
    ELSE CHOOSE i \in separatorsOf(tc) : Cardinality({j \in separatorsOf(tc) : j <= i}) = n
field(tc, n) == SubSeq(tc, nthSeparator(tc, n - 1) + 1, nthSeparator(tc, n) - 1)

hoursOf(tc) == numberOf(field(tc, 1))
minutesOf(tc) == numberOf(field(tc, 2))
secondsOf(tc) == numberOf(field(tc, 3))
fractionOf(tc) == numberOf(field(tc, 4))

\* the instant, in milliseconds, an SRT / ASS timecode denotes
srtInstant(tc) ==
    ((hoursOf(tc) * 60 + minutesOf(tc)) * 60 + secondsOf(tc)) * 1000 + fractionOf(tc)
assInstant(tc) ==
    ((hoursOf(tc) * 60 + minutesOf(tc)) * 60 + secondsOf(tc)) * 1000 + fractionOf(tc) * 10

\* n in decimal, zero-padded to width digits
decimal(n, width) ==
    LET len == CHOOSE l \in width..10 : n < 10 ^ l /\ (l > width => n >= 10 ^ (l - 1))
    IN [i \in 1..len |-> digitChar((n \div (10 ^ (len - i))) % 10)]

(***************************************************************************)
(* C8  The two export formats agree on timing: the instant encoded in the  *)
(* SRT cue line of an entry time is the instant encoded in its ASS         *)
(* Dialogue line.                                                          *)
(***************************************************************************)
C8_SameInstant_Original ==
    (srtTime # <<>> /\ assTime # <<>>) => srtInstant(srtTime) = assInstant(assTime)

\* amended: the two timecodes carry the same hour, minute and second, and
\* their sub-second parts differ by at most one centisecond (10 ms)
C8_SameInstant ==
    (srtTime # <<>> /\ assTime # <<>>) =>
        /\ hoursOf(srtTime) = hoursOf(assTime)
        /\ minutesOf(srtTime) = minutesOf(assTime)
        /\ secondsOf(srtTime) = secondsOf(assTime)
        /\ fractionOf(srtTime) - 10 * fractionOf(assTime) <= 10
        /\ 10 * fractionOf(assTime) - fractionOf(srtTime) <= 10

\* both exports made of a time past the first hour whose milliseconds are
\* not a whole number of centiseconds
W_C8 ==
    /\ srtTime # <<>>
    /\ assTime # <<>>
    /\ hoursOf(srtTime) >= 1
    /\ srtInstant(srtTime) # assInstant(assTime)

(***************************************************************************)
(* C9  SRT timecode: for every non-negative seconds value the formatter    *)
(* outputs HH:MM:SS,mmm with HH = floor(s/3600), MM = floor((s mod         *)
(* 3600)/60), SS = floor(s mod 60), each padded to 2 digits, and mmm the   *)
(* milliseconds of the fractional part, truncated, padded to 3 digits; MM  *)
(* and SS in 0..59, mmm in 0..999.  Stated for s = sentMillis/1000.            *)
(***************************************************************************)
C9_SRTTimecode ==
    srtTime # <<>> =>
        /\ srtTime = decimal(sentMillis \div 3600000, 2) \o <<":">>
                     \o decimal((sentMillis % 3600000) \div 60000, 2) \o <<":">>
                     \o decimal((sentMillis % 60000) \div 1000, 2) \o <<",">>
                     \o decimal(sentMillis % 1000, 3)
        /\ minutesOf(srtTime) \in 0..59
        /\ secondsOf(srtTime) \in 0..59
        /\ fractionOf(srtTime) \in 0..999

(***************************************************************************)
(* C10  ASS timecode: for every non-negative seconds value formatASSTime   *)
(* outputs H:MM:SS.cc with H = floor(s/3600) unpadded, MM and SS padded    *)
(* to 2 digits and in 0..59, and cc the hundredths of the fractional part, *)
(* truncated, padded to 2 digits.  Stated for s = sentMillis/1000.             *)
(***************************************************************************)
C10_ASSTimecode ==
    assTime # <<>> =>
        /\ assTime = decimal(sentMillis \div 3600000, 1) \o <<":">>
                     \o decimal((sentMillis % 3600000) \div 60000, 2) \o <<":">>
                     \o decimal((sentMillis % 60000) \div 1000, 2) \o <<".">>
                     \o decimal((sentMillis % 1000) \div 10, 2)
        /\ minutesOf(assTime) \in 0..59
        /\ secondsOf(assTime) \in 0..59
        /\ fractionOf(assTime) \in 0..99

(***************************************************************************)
(* C11  Timecode literals: the seconds values 0, 1.5, 61.005 and 3661.999  *)
(* format to 00:00:00,000 (SRT), 00:00:01,500 (SRT), 01:01:01,005 (SRT)    *)
(* and 1:01:01.99 (ASS), by floor and not by rounding.                     *)
(***************************************************************************)
C11_TimecodeLiterals_Original ==
    /\ (sentMillis = 0 /\ srtTime # <<>>) =>
          srtTime = <<"0", "0", ":", "0", "0", ":", "0", "0", ",", "0", "0", "0">>
    /\ (sentMillis = 1500 /\ srtTime # <<>>) =>
          srtTime = <<"0", "0", ":", "0", "0", ":", "0", "1", ",", "5", "0", "0">>
    /\ (sentMillis = 61005 /\ srtTime # <<>>) =>
          srtTime = <<"0", "1", ":", "0", "1", ":", "0", "1", ",", "0", "0", "5">>
    /\ (sentMillis = 3661999 /\ assTime # <<>>) =>
          assTime = <<"1", ":", "0", "1", ":", "0", "1", ".", "9", "9">>

\* amended: 61.005 formats to 00:01:01,005 (no hour has elapsed)
C11_TimecodeLiterals ==
    /\ (sentMillis = 0 /\ srtTime # <<>>) =>
          srtTime = <<"0", "0", ":", "0", "0", ":", "0", "0", ",", "0", "0", "0">>
    /\ (sentMillis = 1500 /\ srtTime # <<>>) =>
          srtTime = <<"0", "0", ":", "0", "0", ":", "0", "1", ",", "5", "0", "0">>
    /\ (sentMillis = 61005 /\ srtTime # <<>>) =>
          srtTime = <<"0", "0", ":", "0", "1", ":", "0", "1", ",", "0", "0", "5">>
    /\ (sentMillis = 3661999 /\ assTime # <<>>) =>
          assTime = <<"1", ":", "0", "1", ":", "0", "1", ".", "9", "9">>

\* 61.005 exported to SRT and ASS
W_C11 ==
    /\ sentMillis = 61005
    /\ srtTime # <<>>
    /\ assTime # <<>>

(***************************************************************************)
(* Colours: vocabulary                                                     *)
(***************************************************************************)
HexDigitsUpper == <<"0", "1", "2", "3", "4", "5", "6", "7", "8", "9",
                    "A", "B", "C", "D", "E", "F">>
HexDigitsLower == <<"0", "1", "2", "3", "4", "5", "6", "7", "8", "9",
                    "a", "b", "c", "d", "e", "f">>
isHexDigit(c) == \E k \in 1..16 : c = HexDigitsUpper[k] \/ c = HexDigitsLower[k]
hexDigitValue(c) == (CHOOSE k \in 1..16 : c = HexDigitsUpper[k] \/ c = HexDigitsLower[k]) - 1

\* the colour string without its optional leading '#'
withoutHash(h) == IF h # <<>> /\ h[1] = "#" THEN Tail(h) ELSE h

\* exactly six hexadecimal digits after the optional '#'
isHexColour(h) ==
    /\ Len(withoutHash(h)) = 6
    /\ \A i \in 1..6 : isHexDigit(withoutHash(h)[i])

\* a byte as two upper-case hexadecimal digits
hexByte(n) == <<HexDigitsUpper[(n \div 16) + 1], HexDigitsUpper[(n % 16) + 1]>>

\* the byte written at digits i, i+1 of a colour
byteAt(h, i) == 16 * hexDigitValue(withoutHash(h)[i]) + hexDigitValue(withoutHash(h)[i + 1])

\* round((1 - c/100) * 255), halves upwards
alphaOf(c) == (2 * 255 * (100 - c) + 100) \div 200

(***************************************************************************)
(* C12  Colour conversion: for every colour RRGGBB of six hexadecimal      *)
(* digits, with or without '#', in any case, and every opacity in [0,1],   *)
(* hexToASSColor returns &H AA BB GG RR in upper case with                 *)
(* AA = round((1 - opacity) * 255) as two hexadecimal digits.              *)
(***************************************************************************)
C12_ColourConversion ==
    (call.fn = "hexToASSColor" /\ returned /\ isHexColour(call.hex)) =>
        result = <<"&", "H">> \o hexByte(alphaOf(call.percent))
                 \o hexByte(byteAt(call.hex, 5))
                 \o hexByte(byteAt(call.hex, 3))
                 \o hexByte(byteAt(call.hex, 1))

(***************************************************************************)
(* C13  Malformed colour fallback: for every string that is not exactly    *)
(* six hexadecimal digits after an optional leading '#', hexToASSColor     *)
(* returns the fallback &H00FFFFFF.                                        *)
(***************************************************************************)
C13_MalformedFallback ==
    (call.fn = "hexToASSColor" /\ returned /\ ~isHexColour(call.hex)) =>
        result = <<"&", "H", "0", "0", "F", "F", "F", "F", "F", "F">>

(***************************************************************************)
(* C14  SRT structure: for n entries generateSRTContent returns n blocks   *)
(* in input order, block k being the line k, the line                      *)
(* <SRT start> --> <SRT end>, the entry text and one blank line; for       *)
(* [{Hello,0.5,2.5},{World,3.0,5.0}] it is exactly the eight lines below   *)
(* and for no entries the empty string.                                    *)
(***************************************************************************)
\* block k of the entries
srtBlock(entries, k) ==
    decimal(k, 1) \o <<"\n">>
    \o formatTime(entries[k].startTime) \o <<" ", "-", "-", ">", " ">> \o formatTime(entries[k].endTime)
    \o <<"\n">> \o entries[k].text \o <<"\n">> \o <<"\n">>

\* content is blocks k..n of the entries, one after the other
RECURSIVE isBlocksFrom(_, _, _)
isBlocksFrom(content, entries, k) ==
    IF k > Len(entries) THEN content = <<>>
    ELSE /\ Len(content) >= Len(srtBlock(entries, k))
         /\ SubSeq(content, 1, Len(srtBlock(entries, k))) = srtBlock(entries, k)
         /\ isBlocksFrom(SubSeq(content, Len(srtBlock(entries, k)) + 1, Len(content)),
                         entries, k + 1)

HelloWorld == <<entryOf(<<"H", "e", "l", "l", "o">>, 500, 2500), entryOf(<<"W", "o", "r", "l", "d">>, 3000, 5000)>>

C14_SRTStructure ==
    (call.fn = "generateSRTContent" /\ returned) =>
        /\ isBlocksFrom(result, call.entries, 1)
        /\ call.entries = <<>> => result = <<>>
        /\ call.entries = HelloWorld =>
              result = <<"1", "\n", "0", "0", ":", "0", "0", ":", "0", "0", ",", "5", "0", "0", " ", "-", "-", ">", " ", "0", "0", ":", "0", "0", ":", "0", "2", ",", "5", "0", "0", "\n">>
                       \o <<"H", "e", "l", "l", "o", "\n", "\n">>
                       \o <<"2", "\n", "0", "0", ":", "0", "0", ":", "0", "3", ",", "0", "0", "0", " ", "-", "-", ">", " ", "0", "0", ":", "0", "0", ":", "0", "5", ",", "0", "0", "0", "\n">>
                       \o <<"W", "o", "r", "l", "d", "\n", "\n">>

\* the two-entry example exported
W_C14 ==
    /\ call.fn = "generateSRTContent"
    /\ returned
    /\ call.entries = HelloWorld

(***************************************************************************)
(* ASS: vocabulary                                                         *)
(***************************************************************************)
\* the lines of a text, none for the empty text
linesOf(text) ==
    LET breaks == {i \in 1..Len(text) : text[i] = "\n"}
        nthBreak(k) == IF k = 0 THEN 0
                       ELSE IF k > Cardinality(breaks) THEN Len(text) + 1
                       ELSE CHOOSE i \in breaks : Cardinality({j \in breaks : j <= i}) = k
    IN IF text = <<>> THEN <<>>
       ELSE [k \in 1..(Cardinality(breaks) + 1) |->
                SubSeq(text, nthBreak(k - 1) + 1, nthBreak(k) - 1)]

\* t is text without its carriage returns and with \N for each line feed
isEscapeOf(t, text) ==
    LET u == SelectSeq(text, LAMBDA c : c # "\r")
        feedsBefore(i) == Cardinality({j \in 1..(i - 1) : u[j] = "\n"})
        at(i) == i + feedsBefore(i)
    IN /\ Len(t) = Len(u) + feedsBefore(Len(u) + 1)
       /\ \A i \in 1..Len(u) :
             IF u[i] = "\n" THEN t[at(i)] = "\\" /\ t[at(i) + 1] = "N"
             ELSE t[at(i)] = u[i]

\* line is 'Dialogue: 0,<start>,<end>,Default,,0,0,0,,<text>' for the entry
isDialogueOf(line, entry) ==
    LET head == <<"D", "i", "a", "l", "o", "g", "u", "e", ":", " ", "0", ",">> \o formatASSTime(entry.startTime) \o <<",">>
                \o formatASSTime(entry.endTime) \o <<",", "D", "e", "f", "a", "u", "l", "t", ",", ",", "0", ",", "0", ",", "0", ",", ",">>
    IN /\ Len(line) >= Len(head)
       /\ SubSeq(line, 1, Len(head)) = head
       /\ isEscapeOf(SubSeq(line, Len(head) + 1, Len(line)), entry.text)

(***************************************************************************)
(* C15  ASS events: for n entries the events are exactly n lines           *)
(* 'Dialogue: 0,<start>,<end>,Default,,0,0,0,,<text>' in input order, and  *)
(* no event line holds a line feed or carriage return of the entry text:   *)
(* each line feed is replaced by \N and each carriage return removed.      *)
(***************************************************************************)
C15_ASSEvents ==
    (call.fn = "generateASSContent" /\ returned) =>
        /\ Len(linesOf(result.Events)) = Len(call.entries)
        /\ \A k \in 1..Len(call.entries) :
              /\ isDialogueOf(linesOf(result.Events)[k], call.entries[k])
              /\ \A i \in 1..Len(linesOf(result.Events)[k]) :
                    linesOf(result.Events)[k][i] \notin {"\n", "\r"}

\* two entries exported, one of them with line breaks in its text
W_C15 ==
    /\ call.fn = "generateASSContent"
    /\ returned
    /\ Len(call.entries) = 2
    /\ \E k \in 1..2 : \E i \in 1..Len(call.entries[k].text) :
          call.entries[k].text[i] = "\r"
    /\ \E k \in 1..2 : \E i \in 1..Len(call.entries[k].text) :
          call.entries[k].text[i] = "\n"

(***************************************************************************)
(* C16  ASS vertical margin: for every yAlign in 0..100 and every video    *)
(* height, MarginV of the Default style is                                 *)
(* round(videoHeight * (1 - yAlign/100)).                                  *)
(***************************************************************************)
C16_MarginV ==
    (call.fn = "generateASSContent" /\ returned /\ call.cfg.yAlign \in 0..100) =>
        result.Style.MarginV
            = (2 * call.videoHeight * (100 - call.cfg.yAlign) + 100) \div 200

(***************************************************************************)
(* C17  ASS colours: for every style configuration with backgroundOpacity  *)
(* in [0,1], PrimaryColour is the text colour converted with alpha 00,     *)
(* BackColour is the conversion of backgroundColor with the configured     *)
(* backgroundOpacity, and BorderStyle is 3 when backgroundOpacity > 0 and  *)
(* 1 otherwise.                                                            *)
(***************************************************************************)
C17_StyleColours ==
    (/\ call.fn = "generateASSContent"
     /\ returned
     /\ isHexColour(call.cfg.color)
     /\ isHexColour(call.cfg.backgroundColor)) =>
        /\ result.Style.PrimaryColour = hexToASSColor(call.cfg.color, fromInt(1))
        /\ SubSeq(result.Style.PrimaryColour, 3, 4) = <<"0", "0">>
        /\ result.Style.BackColour
              = hexToASSColor(call.cfg.backgroundColor, call.cfg.backgroundOpacity)
        /\ result.Style.BorderStyle = IF call.percent > 0 THEN 3 ELSE 1

(***************************************************************************)
(* C19  Difficulty classification: estimateProcessingDifficulty returns    *)
(* 'easy' exactly when duration < 60 and width*height/1e6 < 2, 'hard'      *)
(* exactly when duration > 180 or width*height/1e6 > 4, and 'medium'       *)
(* otherwise; (30,720,1280) is easy, (120,1080,1920) is medium and         *)
(* (200,3840,2160) is hard.                                                *)
(***************************************************************************)
C19_Difficulty ==
    (call.fn = "estimateProcessingDifficulty" /\ returned) =>
        LET short == call.millis < 60000
            long == call.millis > 180000
            small == call.videoWidth * call.videoHeight < 2000000
            large == call.videoWidth * call.videoHeight > 4000000
            is(d, w, h) == call.millis = d /\ call.videoWidth = w /\ call.videoHeight = h
        IN /\ result \in {"easy", "medium", "hard"}
           /\ result = "easy" <=> (short /\ small)
           /\ result = "hard" <=> (long \/ large)
           /\ result = "medium" <=> (~(short /\ small) /\ ~(long \/ large))
           /\ is(30000, 720, 1280) => result = "easy"
           /\ is(120000, 1080, 1920) => result = "medium"
           /\ is(200000, 3840, 2160) => result = "hard"

\* a video of exactly 60 seconds and exactly 2 megapixels classified
W_C19 ==
    /\ call.fn = "estimateProcessingDifficulty"
    /\ returned
    /\ call.millis = 60000
    /\ call.videoWidth * call.videoHeight = 2000000
    /\ result = "medium"

(***************************************************************************)
(* C20  Boundary adapter round trip: the segments mapped into Subtitles by *)
(* generateSubtitles and mapped back by exportVideo have the start, end,   *)
(* text and per-word word/start/end of the originals, in the same order,   *)
(* with absent words staying absent.                                       *)
(***************************************************************************)
C20_AdapterRoundTrip ==
    burnRequest.sent =>
        /\ Len(burnRequest.segments) = Len(response)
        /\ \A k \in 1..Len(response) :
              /\ burnRequest.segments[k].start = response[k].start
              /\ burnRequest.segments[k].end = response[k].end
              /\ burnRequest.segments[k].text = response[k].text
              /\ burnRequest.segments[k].words.present = response[k].words.present
              /\ burnRequest.segments[k].words.list = response[k].words.list

\* a response of two segments with their words sent back to /burn
W_C20 ==
    /\ burnRequest.sent
    /\ Len(response) = 2
    /\ \A k \in 1..2 : Len(response[k].words.list) = 2

C23_SegmentIndependence ==
    showExportModal =>
        /\ \A i \in 0..Len(subtitles) :
              subtitleEntries =
                  buildSubtitleEntries(SubSeq(subtitles, 1, i), styleConfig)
                  \o buildSubtitleEntries(SubSeq(subtitles, i + 1, Len(subtitles)), styleConfig)
        /\ \A k \in 1..Len(subtitles) :
              entriesOf(k) = buildSubtitleEntries(<<subtitles[k]>>, styleConfig)

\* an export, in word or phrase mode, of two segments with words, the first
\* of them ending after the second starts
W_C23 ==
    /\ showExportModal
    /\ styleConfig.displayMode \in {"word", "phrase"}
    /\ Len(subtitles) = 2
    /\ withWords(1)
    /\ withWords(2)
    /\ subtitles[1].endTime > subtitles[2].startTime
    /\ Len(subtitleEntries) >= 3

(***************************************************************************)
(* Vocabulary of the properties of a call of buildSubtitleEntries          *)
(***************************************************************************)
builderReturned == call.fn = "buildSubtitleEntries" /\ returned
phraseReturned ==
    /\ builderReturned
    /\ call.cfg.displayMode = "phrase"
    /\ call.cfg.wordsPerLine >= 1

callHasWords(k) == call.subtitles[k].words.present /\ Len(call.subtitles[k].words.list) > 0
callWords(k) == call.subtitles[k].words.list

\* the entries returned for segment k of the call: the slice of the result
\* after the entries of the segments before it
RECURSIVE resultBefore(_)
resultBefore(k) ==
    IF k = 1 THEN 0
    ELSE resultBefore(k - 1) + Len(segmentEntries(call.subtitles[k - 1], call.cfg))

resultOf(k) ==
    SubSeq(result, resultBefore(k) + 1,
           resultBefore(k) + Len(segmentEntries(call.subtitles[k], call.cfg)))

\* the entries es are the chunks of c over the words ws, each starting with
\* its first word
followsChunking(es, ws, c) ==
    /\ Len(es) = Cardinality(c)
    /\ \A j \in 1..Len(es) :
          /\ isJoinOf(es[j].text, ws, chunkFirst(c, j), chunkLast(c, j))
          /\ es[j].startTime = ws[chunkFirst(c, j)].startTime

\* the running word count at word i under the chunking c: the words since
\* the last chunk end before i, word i included
runningCount(c, i) ==
    LET before == {x \in c : x < i}
    IN IF before = {} THEN i ELSE i - (CHOOSE x \in before : \A y \in before : y <= x)

hasBreakPunctuation(word) ==
    \E i \in 1..Len(word.text) : word.text[i] \in {".", "?", "!", ",", ";", ":"}

(***************************************************************************)
(* C4  Phrase chunk size bound: for every positive wordsPerLine, every     *)
(* phrase-mode chunk except possibly the last of a segment has at most     *)
(* wordsPerLine words.                                                     *)
(***************************************************************************)
C4_ChunkSizeBound ==
    phraseReturned =>
        \A k \in 1..Len(call.subtitles) : callHasWords(k) =>
            \A j \in 1..(Len(resultOf(k)) - 1) :
                numberOfWords(resultOf(k)[j].text) <= call.cfg.wordsPerLine

\* a phrase call whose segment was cut into a full chunk of wordsPerLine
\* words, two or more, followed by another chunk
W_C4 ==
    /\ phraseReturned
    /\ call.cfg.wordsPerLine >= 2
    /\ \E k \in 1..Len(call.subtitles) :
          /\ callHasWords(k)
          /\ Len(resultOf(k)) >= 2
          /\ numberOfWords(resultOf(k)[1].text) = call.cfg.wordsPerLine

(***************************************************************************)
(* C21  Phrase break rule: scanning a segment's words in order, a chunk is *)
(* closed at a non-last word exactly when the running word count of the    *)
(* chunk has reached wordsPerLine, or the word's text contains one of      *)
(* . ? ! , ; : and the chunk already holds more than one word; a           *)
(* punctuation word alone at the start of a chunk does not close it; a     *)
(* chunk is always closed at the segment's last word.                      *)
(***************************************************************************)
\* c closes chunks over the words ws exactly where the rule says
followsBreakRule(c, ws, wordsPerLine) ==
    /\ Len(ws) \in c
    /\ \A i \in 1..(Len(ws) - 1) :
          i \in c <=> \/ runningCount(c, i) = wordsPerLine
                      \/ (hasBreakPunctuation(ws[i]) /\ runningCount(c, i) > 1)

C21_PhraseBreakRule ==
    phraseReturned =>
        \A k \in 1..Len(call.subtitles) : callHasWords(k) =>
            \E c \in Chunkings(Len(callWords(k))) :
                /\ followsBreakRule(c, callWords(k), call.cfg.wordsPerLine)
                /\ followsChunking(resultOf(k), callWords(k), c)

\* a phrase call, three words per line, on a segment of three words whose
\* first word carries punctuation and was not closed alone: the chunk was
\* closed at the second word, by its punctuation, before the count was
\* reached
W_C21 ==
    /\ phraseReturned
    /\ call.cfg.wordsPerLine = 3
    /\ \E k \in 1..Len(call.subtitles) :
          /\ callHasWords(k)
          /\ Len(callWords(k)) = 3
          /\ hasBreakPunctuation(callWords(k)[1])
          /\ hasBreakPunctuation(callWords(k)[2])
          /\ Len(resultOf(k)) = 2
          /\ numberOfWords(resultOf(k)[1].text) = 2

(***************************************************************************)
(* C22  Word coverage: in word and phrase modes the entries of a segment   *)
(* partition its words in order: word mode emits exactly one entry per     *)
(* word; in phrase mode the chunks are contiguous and non-empty, every     *)
(* word is in exactly one of them, each entry starts with its first word,  *)
(* and the chunks put end to end are the segment's words, none dropped,    *)
(* duplicated or carried over from a previous chunk or segment.            *)
(***************************************************************************)
\* the texts of the entries es, put end to end with single spaces
textsOf(es) == joinSpace([j \in 1..Len(es) |-> es[j].text])

C22_WordCoverage ==
    builderReturned =>
        \A k \in 1..Len(call.subtitles) : callHasWords(k) =>
            /\ call.cfg.displayMode = "word" =>
                  /\ Len(resultOf(k)) = Len(callWords(k))
                  /\ \A i \in 1..Len(callWords(k)) :
                        /\ isTrimOf(resultOf(k)[i].text, callWords(k)[i].text)
                        /\ resultOf(k)[i].startTime = callWords(k)[i].startTime
            /\ call.cfg.displayMode = "phrase" =>
                  /\ \E c \in Chunkings(Len(callWords(k))) :
                        followsChunking(resultOf(k), callWords(k), c)
                  /\ isJoinOf(textsOf(resultOf(k)), callWords(k), 1, Len(callWords(k)))

\* a phrase call on two segments with words, each cut into two chunks
W_C22 ==
    /\ builderReturned
    /\ call.cfg.displayMode = "phrase"
    /\ Len(call.subtitles) = 2
    /\ callHasWords(1)
    /\ callHasWords(2)
    /\ Len(resultOf(1)) = 2
    /\ Len(resultOf(2)) = 2

(***************************************************************************)
(* C24  Boundary tolerance: in phrase mode a chunk can contain             *)
(* wordsPerLine + 1 words, namely when a punctuation-bearing word arrives  *)
(* exactly at the boundary word of the chunk.                              *)
(***************************************************************************)
\* word i of ws is a punctuation-bearing word arriving as the boundary word
\* (the wordsPerLine-th) of its chunk under the chunking c, with a word
\* after it in the segment
punctuationAtBoundary(c, ws, i, wordsPerLine) ==
    /\ i < Len(ws)
    /\ hasBreakPunctuation(ws[i])
    /\ runningCount(c, i) = wordsPerLine

\* as stated: in that case the chunk is not closed at the boundary word and
\* takes one more word
C24_BoundaryTolerance_Original ==
    phraseReturned =>
        \A k \in 1..Len(call.subtitles) : callHasWords(k) =>
            \A c \in Chunkings(Len(callWords(k))) :
                followsChunking(resultOf(k), callWords(k), c) =>
                    \A i \in 1..Len(callWords(k)) :
                        punctuationAtBoundary(c, callWords(k), i, call.cfg.wordsPerLine) =>
                            (i \notin c /\ (i + 1) \in c)

\* amended: in phrase mode no chunk contains more than wordsPerLine words; a
\* punctuation-bearing word arriving exactly at the boundary word closes the
\* chunk there, with exactly wordsPerLine words
C24_BoundaryTolerance ==
    phraseReturned =>
        \A k \in 1..Len(call.subtitles) : callHasWords(k) =>
            \E c \in Chunkings(Len(callWords(k))) :
                /\ followsChunking(resultOf(k), callWords(k), c)
                /\ \A j \in 1..Cardinality(c) :
                      chunkLast(c, j) - chunkFirst(c, j) + 1 <= call.cfg.wordsPerLine
                /\ \A i \in 1..Len(callWords(k)) :
                      punctuationAtBoundary(c, callWords(k), i, call.cfg.wordsPerLine) =>
                          i \in c

\* a phrase call, two words per line, on a segment of three words whose
\* second word carries punctuation: the first chunk was closed at it
W_C24 ==
    /\ phraseReturned
    /\ call.cfg.wordsPerLine = 2
    /\ \E k \in 1..Len(call.subtitles) :
          /\ callHasWords(k)
          /\ Len(callWords(k)) = 3
          /\ hasBreakPunctuation(callWords(k)[2])
          /\ Len(resultOf(k)) = 2
          /\ numberOfWords(resultOf(k)[1].text) = 2

(***************************************************************************)
(* C27  No segment is silently dropped: for every segment list and every   *)
(* display configuration the StyleConfig type admits (including one with   *)
(* displayMode unset, as in DEFAULT_STYLE), buildSubtitleEntries emits at  *)
(* least one entry for every input segment, so there are at least as many  *)
(* entries as segments.                                                    *)
(***************************************************************************)
C27_NoSegmentDropped ==
    showExportModal =>
        /\ \A k \in 1..Len(subtitles) : Len(entriesOf(k)) >= 1
        /\ Len(subtitleEntries) >= Len(subtitles)

(***************************************************************************)
(* C30  Phrase mode degenerates to word mode: for every segment list,      *)
(* buildSubtitleEntries with displayMode 'phrase' and wordsPerLine = 1     *)
(* returns exactly the entries (text, startTime, endTime, order) it        *)
(* returns with displayMode 'word'.                                        *)
(***************************************************************************)
C30_PhraseOfOneIsWord ==
    builderReturned =>
        /\ (call.cfg.displayMode = "phrase" /\ call.cfg.wordsPerLine = 1) =>
              result = buildSubtitleEntries(call.subtitles,
                                            [call.cfg EXCEPT !.displayMode = "word"])
        /\ call.cfg.displayMode = "word" =>
              result = buildSubtitleEntries(call.subtitles,
                                            [displayMode |-> "phrase", wordsPerLine |-> 1])

\* a phrase call, one word per line, on a segment of three words of which
\* two carry punctuation: three entries
W_C30 ==
    /\ builderReturned
    /\ call.cfg.displayMode = "phrase"
    /\ call.cfg.wordsPerLine = 1
    /\ \E k \in 1..Len(call.subtitles) :
          /\ callHasWords(k)
          /\ Len(callWords(k)) = 3
          /\ hasBreakPunctuation(callWords(k)[2])
          /\ Len(resultOf(k)) = 3

(***************************************************************************)
(* C29  Timeline minimum duration: for a subtitle with                     *)
(* 0 <= startTime < endTime, every (startTime, endTime) that a resize-left *)
(* or resize-right drag reports through onSubtitleTimeUpdate, for any      *)
(* mouse position, satisfies startTime >= 0 and                            *)
(* endTime - startTime >= 0.2 seconds.                                     *)
(***************************************************************************)
C29_MinimumDuration ==
    (/\ timeUpdate.reported
     /\ timeUpdate.dragType \in {"resize-l", "resize-r"}) =>
        /\ timeUpdate.startTime >= 0
        /\ timeUpdate.endTime - timeUpdate.startTime >= MinDuration


(***************************************************************************)
(* Vocabulary of the properties of the exports                             *)
(***************************************************************************)
\* instance r was cancelled or unmounted
cancelled(r) == runs[r].abortRef \/ ~runs[r].mounted

\* runExport of instance r ended by reporting to the modal
ended(r) == runs[r].stage \in {"complete", "error"}

\* runExport of instance r awaits a call of the collaborator
awaiting(r) == runs[r].pc # "done"

(***************************************************************************)
(* C28  Cancel suppresses completion: once a client export was cancelled   *)
(* or its exporter unmounted, at whatever step of the pipeline, that run   *)
(* never afterwards calls onComplete or onError and never sets the stage   *)
(* to 'complete' or 'error'; and a run calls at most one of onComplete and *)
(* onError, at most once.                                                  *)
(***************************************************************************)
C28_CancelSuppressesCompletion ==
    [][\A r \in 1..Len(runs) :
          /\ runs'[r].onComplete + runs'[r].onError <= 1
          /\ cancelled(r) =>
                /\ runs'[r].onComplete = runs[r].onComplete
                /\ runs'[r].onError = runs[r].onError
                /\ runs'[r].stage \in {"complete", "error"} =>
                      runs'[r].stage = runs[r].stage]_vars

\* a run cancelled while it was processing, whose pipeline then went on to
\* its end without reporting, while a later run completed
W_C28 ==
    \E r, q \in 1..Len(runs) :
        /\ runs[r].abortRef
        /\ runs[r].pc = "done"
        /\ runs[r].stage = "processing"
        /\ runs[r].onComplete = 0
        /\ runs[r].onError = 0
        /\ runs[q].onComplete = 1
        /\ runs[q].onError = 0


(***************************************************************************)
(* C25  Bounded export: a client-side export run that the user does not    *)
(* cancel always ends, in stage 'complete' or 'error', even when the       *)
(* transcoding collaborator (FFmpeg load, file write, exec or read) never  *)
(* responds, because the hand-off is bounded by a timeout: as long as a    *)
(* run that was not cancelled awaits the collaborator, a timer is armed    *)
(* that will end it.                                                       *)
(***************************************************************************)
C25_BoundedExport ==
    \A r \in 1..Len(runs) :
        (awaiting(r) /\ ~cancelled(r)) => runs[r].loadTimeout

\* this step makes the ExportModal run its useMemo: it mounts, or it renders
\* with other subtitles or another styleConfig
invokesBuilder ==
    /\ showExportModal'
    /\ ~showExportModal \/ subtitles' # subtitles \/ styleConfig' # styleConfig

\* this step starts an export of the video: a ClientExporter mounts, or a
\* request goes to /burn
startsExport ==
    \/ Len(runs') > Len(runs)
    \/ burnRequest'.sent /\ burnRequest' # burnRequest

(***************************************************************************)
(* C26  No re-entry mid-export: while a video export is in progress        *)
(* (exportState is 'exporting' or 'client-exporting'), no step invokes     *)
(* buildSubtitleEntries again and no step starts a second export, under    *)
(* every interleaving of the user actions available in that state.         *)
(***************************************************************************)
C26_NoReentryMidExport ==
    [][isExporting => (~invokesBuilder /\ ~startsExport)]_vars

=============================================================================
